---------------------------- MODULE Spec2Model ----------------------------
(***************************************************************************)
(* A model of n-log's two stateful sinks.                                  *)
(*                                                                         *)
(*   SlackLogger (the "Remote Sink"): logging calls append to _messages;   *)
(*   a recurring timer and dispose() call _flushMessages, which swaps the  *)
(*   batch and posts it; a failed post is replayed to the fallback logger  *)
(*   or to the console.                                                    *)
(*                                                                         *)
(*   FileLogger (the "File Sink"): logging calls build a line, take the    *)
(*   mutex, append to the hour's file, run the purge check and release.    *)
(*                                                                         *)
(* Every await of the source is a point where other handlers may run, so   *)
(* every action below is one handler run from one await to the next.       *)
(***************************************************************************)
EXTENDS Integers, Sequences, FiniteSets, TLC

VARIABLES
    \* ---- SlackLogger ----
    cfg,            \* the constructor's configuration (fixed for the lifetime)
    messages,       \* this._messages
    timerActive,    \* the setInterval timer has not been cleared
    isDisposed,     \* this._isDisposed
    disposePromise, \* this._disposePromise
    flushes,        \* the _flushMessages invocations that posted, in start order,
                    \* each with the calls it made to the fallback logger
    posted,         \* the chat.postMessage calls made, in call order
    consoleLog,     \* console.warn / console.info / console.error output
    appendLog,      \* history: every record pushed to _messages, in push order, with the
                    \* number of dispose() calls made before the push and what the
                    \* call did with the predicate
    rejectedCalls,  \* history: the number of logging calls whose promise was rejected
    returned,       \* history: the handle each dispose() call returned
    \* ---- FileLogger ----
    fcfg,           \* the constructor's configuration
    now,            \* the clock, in hours
    files,          \* the log directory: file name -> [birth, lines]
    lastPurgedAt,   \* this._lastPurgedAt
    mutexQueue,     \* Mutex: the pending lock() calls, the holder first
    calls,          \* the logging calls, in call order: where each one is (pc), its
                    \* file and line, and the I/O operation that failed under it
    sweep,          \* the locals of the _purgeLogs invocation in progress
    diag,           \* console.error output of the write path
    \* ---- BaseLogger ----
    errorCall,      \* a getErrorMessage call: its argument, what it returned and
                    \* whether it called console.warn
    conversion,     \* a _fromString / _toNumberString round: the string, the buffer
                    \* and the number string
    builder         \* the message building of FileLogger._writeToLog: the fields
                    \* of the BaseLogger, the active span and the messages built

svars == <<cfg, messages, timerActive, isDisposed, disposePromise, flushes,
           posted, consoleLog, appendLog, rejectedCalls, returned>>
fvars == <<fcfg, now, files, lastPurgedAt, mutexQueue, calls, sweep, diag>>
bvars == <<errorCall, conversion, builder>>
vars == <<svars, fvars, bvars>>

-----------------------------------------------------------------------------
(* Bounds of the model *)

MaxEvents == 2
MaxDisposeCalls == 2
MaxCalls == 2

-----------------------------------------------------------------------------
(* BaseLogger: the message of a warning or an error *)

\* What the caller passes to logWarning / logError.
ErrorInputs == {"text", "", "Exception", "Error", "ErrorNoStack", "ThrowingToString", "null"}

\* getErrorMessage: Exception -> toString(), Error -> stack (undefined when the
\* Error has none), anything else -> toString(); a throw while rendering gives the
\* fixed message.
GetErrorMessage(exp) ==
    CASE exp = "Exception"        -> "text"
      [] exp = "Error"            -> "text"
      [] exp = "ErrorNoStack"     -> "undefined"
      [] exp = "ThrowingToString" -> "fixed"
      [] exp = "null"             -> "fixed"
      [] OTHER                    -> exp

-----------------------------------------------------------------------------
(* SlackLogger *)

Levels == {"Debug", "Info", "Warn", "Error"}

\* The allow-lists the model constructs the sink with (config.filter).
AllFilters == {"Info", "Warn", "Error"}

\* The sinks the model constructs. texts is no part of the configuration: it is
\* the set of texts the callers of the sink log in the run, an empty one among
\* them for the last sink.
SlackConfigs ==
    { [env |-> "dev",  filter |-> {"Info"}, hasFallback |-> TRUE,  logInjector |-> "none",
       texts |-> {"text"}],
      [env |-> "prod", filter |-> {"Warn", "Error"}, hasFallback |-> TRUE, logInjector |-> "tag",
       texts |-> {"text"}],
      [env |-> "dev",  filter |-> AllFilters, hasFallback |-> FALSE, logInjector |-> "tag",
       texts |-> {"text"}],
      [env |-> "prod", filter |-> AllFilters, hasFallback |-> TRUE,  logInjector |-> "throws",
       texts |-> {"text"}],
      [env |-> "prod", filter |-> {"Error"}, hasFallback |-> FALSE, logInjector |-> "none",
       texts |-> {"text", ""}] }

includeInfo == "Info" \in cfg.filter
includeWarn == "Warn" \in cfg.filter
includeError == "Error" \in cfg.filter

Color(level) ==
    CASE level = "Debug" -> "#F8F8F8"
      [] level = "Info"  -> "#259D2F"
      [] level = "Warn"  -> "#F1AB2A"
      [] level = "Error" -> "#EF401D"

\* The record a logging call builds. The n-th buffered record is identified by
\* message = n: every call logs a message of its own; text tells an empty
\* message from one with characters.
NewLog(level, text) ==
    [level |-> level, message |-> Len(appendLog) + 1, text |-> text,
     color |-> Color(level), injected |-> FALSE]

\* log = this.logInjector(log): the configured transform replaces the record.
Inject(log) == IF cfg.logInjector = "tag" THEN [log EXCEPT !.injected = TRUE] ELSE log

\* Mutant of InjectAndPush: the call waits until no delivery is outstanding.
InjectAndPush_AfterDelivery(log, predicate) ==
    /\ \A f \in DOMAIN flushes : flushes[f].pc \in {"resolved", "rejected"}
    /\ Len(appendLog) < MaxEvents
    /\ messages' = Append(messages, Inject(log))
    /\ appendLog' = Append(appendLog, [log |-> Inject(log), disposeCalls |-> Len(returned),
                                      predicate |-> predicate])
    /\ UNCHANGED rejectedCalls

\* The tail of logDebug/logInfo/logWarning/logError: the transform, then the push.
\* A transform that throws rejects the promise of the (async) logging call.
\* predicate is history: what the call did with this._logFilter before it came
\* here ("passed", or "not called").
InjectAndPush(log, predicate) ==
    IF cfg.logInjector = "throws"
    THEN /\ rejectedCalls < MaxEvents
         /\ rejectedCalls' = rejectedCalls + 1
         /\ UNCHANGED <<messages, appendLog>>
    ELSE /\ Len(appendLog) < MaxEvents
         /\ messages' = Append(messages, Inject(log))
         /\ appendLog' = Append(appendLog, [log |-> Inject(log), disposeCalls |-> Len(returned),
                                           predicate |-> predicate])
         /\ UNCHANGED rejectedCalls

\* An early return of a logging call: its promise resolves, nothing is buffered.
Drop == UNCHANGED <<messages, appendLog, rejectedCalls>>

LogFrame ==
    UNCHANGED <<cfg, timerActive, isDisposed, disposePromise, flushes, posted,
                consoleLog, returned, fvars, bvars>>

\* Mutant of FilteredLog: the allow-list is not consulted.
FilteredLog_NoAllowList(level, text, included, filterResult) ==
    /\ IF ~filterResult THEN Drop
       ELSE InjectAndPush(NewLog(level, text), "passed")
    /\ LogFrame

\* logInfo/logWarning/logError: the allow-list, the predicate, the transform, the
\* push. filterResult is what the configured predicate this._logFilter returns.
FilteredLog(level, text, included, filterResult) ==
    /\ IF ~included THEN Drop
       ELSE IF ~filterResult THEN Drop
       ELSE InjectAndPush(NewLog(level, text), "passed")
    /\ LogFrame

LogDebug ==
    /\ \E debug \in cfg.texts :
          IF cfg.env = "dev" THEN InjectAndPush(NewLog("Debug", debug), "not called") ELSE Drop
    /\ LogFrame

LogInfo ==
    \E info \in cfg.texts, filterResult \in BOOLEAN :
        FilteredLog("Info", info, includeInfo, filterResult)

LogWarning ==
    \E warning \in cfg.texts, filterResult \in BOOLEAN :
        FilteredLog("Warn", GetErrorMessage(warning), includeWarn, filterResult)

LogError ==
    \E error \in cfg.texts, filterResult \in BOOLEAN :
        FilteredLog("Error", GetErrorMessage(error), includeError, filterResult)

\* One attachment of the outbound call (_postMessages, messages.map).
Attachment(log) == [color |-> log.color, text |-> log.message]

\* Mutant of PostPayload: the attachments are built back to front.
PostPayload_Reversed(batch) ==
    [text |-> cfg.env,
     attachments |-> [i \in DOMAIN batch |-> Attachment(batch[Len(batch) + 1 - i])]]

\* The argument of this._app.client.chat.postMessage.
PostPayload(batch) ==
    [text |-> cfg.env, attachments |-> [i \in DOMAIN batch |-> Attachment(batch[i])]]

\* Mutant of FlushHandle: the promise of the oldest delivery still outstanding,
\* if there is one.
FlushHandle_OldestOutstanding ==
    LET outstanding == { f \in DOMAIN flushes :
                            flushes[f].pc \in {"posting", "replaying", "catching"} }
    IN  IF outstanding # {}
        THEN [kind |-> "flush", id |-> CHOOSE f \in outstanding : \A g \in outstanding : f <= g]
        ELSE IF messages = <<>> THEN [kind |-> "settled", id |-> 0]
        ELSE [kind |-> "flush", id |-> Len(flushes) + 1]

\* The promise an invocation of _flushMessages returns: settled at once when the
\* batch is empty, otherwise the promise of the flush it starts.
FlushHandle ==
    IF messages = <<>> THEN [kind |-> "settled", id |-> 0]
    ELSE [kind |-> "flush", id |-> Len(flushes) + 1]

\* Mutant of FlushMessages: an empty batch is posted like any other.
FlushMessages_NoEmptyCheck(origin) ==
    /\ messages' = <<>>
    /\ flushes' = Append(flushes,
           [origin |-> origin, batch |-> messages, pc |-> "posting",
            step |-> 0, postFailed |-> FALSE, disposedBefore |-> isDisposed,
            fallback |-> <<>>])
    /\ posted' = Append(posted, [text |-> cfg.env,
            attachments |-> [i \in DOMAIN messages |-> Attachment(messages[i])]])

\* Mutant of FlushMessages: the batch is posted but not swapped for an empty one.
FlushMessages_NoSwap(origin) ==
    IF messages = <<>>
    THEN UNCHANGED <<messages, flushes, posted>>
    ELSE /\ messages' = messages
         /\ flushes' = Append(flushes,
                [origin |-> origin, batch |-> messages, pc |-> "posting",
                 step |-> 0, postFailed |-> FALSE, disposedBefore |-> isDisposed,
                 fallback |-> <<>>])
         /\ posted' = Append(posted, [text |-> cfg.env,
                 attachments |-> [i \in DOMAIN messages |-> Attachment(messages[i])]])

\* _flushMessages up to its await: the empty check, the swap, and the outbound
\* call that _postMessages makes before it suspends.
FlushMessages(origin) ==
    IF messages = <<>>
    THEN UNCHANGED <<messages, flushes, posted>>
    ELSE /\ messages' = <<>>
         /\ flushes' = Append(flushes,
                [origin |-> origin, batch |-> messages, pc |-> "posting",
                 step |-> 0, postFailed |-> FALSE, disposedBefore |-> isDisposed,
                 fallback |-> <<>>])
         /\ posted' = Append(posted, PostPayload(messages))

\* The setInterval callback.
TimerFires ==
    /\ timerActive
    /\ FlushMessages("timer")
    /\ UNCHANGED <<cfg, timerActive, isDisposed, disposePromise,
                   consoleLog, appendLog, rejectedCalls, returned, fvars, bvars>>

\* Mutant of Dispose: no _isDisposed guard, every call flushes again.
Dispose_NoGuard ==
    /\ Len(returned) < MaxDisposeCalls
    /\ isDisposed' = TRUE
    /\ timerActive' = FALSE
    /\ disposePromise' = FlushHandle
    /\ FlushMessages("dispose")
    /\ returned' = Append(returned, disposePromise')
    /\ UNCHANGED <<cfg, consoleLog, appendLog, rejectedCalls, fvars, bvars>>

\* Mutant of Dispose: the interval timer is not cleared.
Dispose_NoClearInterval ==
    /\ Len(returned) < MaxDisposeCalls
    /\ IF ~isDisposed
       THEN /\ isDisposed' = TRUE
            /\ timerActive' = timerActive
            /\ disposePromise' = FlushHandle
            /\ FlushMessages("dispose")
       ELSE UNCHANGED <<isDisposed, timerActive, disposePromise, messages, flushes, posted>>
    /\ returned' = Append(returned, disposePromise')
    /\ UNCHANGED <<cfg, consoleLog, appendLog, rejectedCalls, fvars, bvars>>

Dispose ==
    /\ Len(returned) < MaxDisposeCalls
    /\ IF ~isDisposed
       THEN /\ isDisposed' = TRUE
            /\ timerActive' = FALSE
            /\ disposePromise' = FlushHandle
            /\ FlushMessages("dispose")
       ELSE UNCHANGED <<isDisposed, timerActive, disposePromise, messages, flushes, posted>>
    /\ returned' = Append(returned, disposePromise')
    /\ UNCHANGED <<cfg, consoleLog, appendLog, rejectedCalls, fvars, bvars>>

\* The fallback operation the replay switch picks for a record.
FallbackOp(level) ==
    CASE level = "Debug" -> "logDebug"
      [] level = "Info"  -> "logInfo"
      [] level = "Warn"  -> "logWarning"
      [] level = "Error" -> "logError"
      [] OTHER -> "logError"

\* The console operation the no-fallback switch picks for a record.
ConsoleOp(level) ==
    CASE level = "Debug" -> "info"
      [] level = "Info"  -> "info"
      [] level = "Warn"  -> "warn"
      [] level = "Error" -> "error"
      [] OTHER -> "error"

\* Mutant of FallbackScript: the records are replayed before the framing.
FallbackScript_EventsFirst(batch) ==
    [i \in DOMAIN batch |->
          [op |-> FallbackOp(batch[i].level), kind |-> "event", message |-> batch[i].message]]
    \o << [op |-> "logWarning", kind |-> "failed",   message |-> 0],
          [op |-> "logError",   kind |-> "error",    message |-> 0],
          [op |-> "logWarning", kind |-> "original", message |-> 0] >>

\* The calls the catch block makes to the fallback logger, in order: the three
\* framing calls, then one call per record of the batch.
FallbackScript(batch) ==
    << [op |-> "logWarning", kind |-> "failed",   message |-> 0],
       [op |-> "logError",   kind |-> "error",    message |-> 0],
       [op |-> "logWarning", kind |-> "original", message |-> 0] >>
    \o [i \in DOMAIN batch |->
          [op |-> FallbackOp(batch[i].level), kind |-> "event", message |-> batch[i].message]]

\* Mutant of ConsoleScript: the framing only, the events are not written.
ConsoleScript_FramingOnly(batch) ==
    << [op |-> "warn",  kind |-> "failed",   message |-> 0],
       [op |-> "error", kind |-> "error",    message |-> 0],
       [op |-> "warn",  kind |-> "original", message |-> 0] >>

\* What the catch block writes to the console when no fallback is configured:
\* the three framing lines, then one line per record of the batch.
ConsoleScript(batch) ==
    << [op |-> "warn",  kind |-> "failed",   message |-> 0],
       [op |-> "error", kind |-> "error",    message |-> 0],
       [op |-> "warn",  kind |-> "original", message |-> 0] >>
    \o [i \in DOMAIN batch |->
          [op |-> ConsoleOp(batch[i].level), kind |-> "event", message |-> batch[i].message]]

\* A call to the fallback logger starts (is made); it settles in a later step.
FallbackCall(c) == [ev |-> "call", op |-> c.op, kind |-> c.kind, message |-> c.message]

FallbackSettled(ok) ==
    [ev |-> IF ok THEN "resolved" ELSE "rejected", op |-> "", kind |-> "", message |-> 0]

FlushFrame ==
    UNCHANGED <<cfg, messages, timerActive, isDisposed, disposePromise, posted,
                appendLog, rejectedCalls, returned, fvars, bvars>>

\* Mutant of PostMessageDone: a delivered batch is passed to the fallback too.
PostMessageDone_AlwaysReplays(f, ok) ==
    /\ flushes[f].pc = "posting"
    /\ IF cfg.hasFallback
       THEN /\ flushes' = [flushes EXCEPT
                 ![f].pc = "replaying", ![f].step = 1, ![f].postFailed = ~ok,
                 ![f].fallback = <<FallbackCall(FallbackScript(flushes[f].batch)[1])>>]
            /\ UNCHANGED consoleLog
       ELSE /\ flushes' = [flushes EXCEPT ![f].pc = "resolved", ![f].postFailed = ~ok]
            /\ consoleLog' = consoleLog \o ConsoleScript(flushes[f].batch)
    /\ FlushFrame

\* chat.postMessage settles. On failure the catch block runs up to its first await
\* (fallback configured) or to its end (console).
PostMessageDone(f, ok) ==
    /\ flushes[f].pc = "posting"
    /\ IF ok
       THEN /\ flushes' = [flushes EXCEPT ![f].pc = "resolved"]
            /\ UNCHANGED consoleLog
       ELSE IF cfg.hasFallback
       THEN /\ flushes' = [flushes EXCEPT
                 ![f].pc = "replaying", ![f].step = 1, ![f].postFailed = TRUE,
                 ![f].fallback = <<FallbackCall(FallbackScript(flushes[f].batch)[1])>>]
            /\ UNCHANGED consoleLog
       ELSE /\ flushes' = [flushes EXCEPT ![f].pc = "resolved", ![f].postFailed = TRUE]
            /\ consoleLog' = consoleLog \o ConsoleScript(flushes[f].batch)
    /\ FlushFrame

\* The awaited fallback call of a replay settles. Resolved: the next call of the
\* script is made, or the flush is over. Rejected: the await throws out of
\* _postMessages and _flushMessages; a timer flush's catch handler then calls
\* fallback.logError(e), dispose's promise is just rejected.
FallbackCallDone(f, ok) ==
    /\ flushes[f].pc = "replaying"
    /\ LET script == FallbackScript(flushes[f].batch)
           k == flushes[f].step
           log == flushes[f].fallback
       IN IF ok
          THEN IF k < Len(script)
               THEN flushes' = [flushes EXCEPT
                        ![f].step = k + 1,
                        ![f].fallback = log \o << FallbackSettled(TRUE),
                                                  FallbackCall(script[k + 1]) >>]
               ELSE flushes' = [flushes EXCEPT
                        ![f].pc = "resolved",
                        ![f].fallback = Append(log, FallbackSettled(TRUE))]
          ELSE IF flushes[f].origin = "timer"
               THEN flushes' = [flushes EXCEPT
                        ![f].pc = "catching",
                        ![f].fallback = log \o
                            << FallbackSettled(FALSE),
                               FallbackCall([op |-> "logError", kind |-> "catch",
                                             message |-> 0]) >>]
               ELSE flushes' = [flushes EXCEPT
                        ![f].pc = "rejected",
                        ![f].fallback = Append(log, FallbackSettled(FALSE))]
    /\ UNCHANGED consoleLog
    /\ FlushFrame

\* Mutant of CatchDone: a failure of the handler's logError call is not written
\* to the console.
CatchDone_Silent(f, ok) ==
    /\ flushes[f].pc = "catching"
    /\ flushes' = [flushes EXCEPT ![f].pc = "rejected",
                                  ![f].fallback = Append(@, FallbackSettled(ok))]
    /\ UNCHANGED consoleLog
    /\ FlushFrame

\* The logError call of the timer's catch handler settles; its own failure goes
\* to console.error.
CatchDone(f, ok) ==
    /\ flushes[f].pc = "catching"
    /\ flushes' = [flushes EXCEPT ![f].pc = "rejected",
                                  ![f].fallback = Append(@, FallbackSettled(ok))]
    /\ consoleLog' = IF ok THEN consoleLog
                     ELSE Append(consoleLog, [op |-> "error", kind |-> "catch", message |-> 0])
    /\ FlushFrame

SlackInit ==
    /\ cfg \in SlackConfigs
    /\ messages = <<>>
    /\ timerActive = TRUE
    /\ isDisposed = FALSE
    /\ disposePromise = [kind |-> "null", id |-> 0]
    /\ flushes = <<>>
    /\ posted = <<>>
    /\ consoleLog = <<>>
    /\ appendLog = <<>>
    /\ rejectedCalls = 0
    /\ returned = <<>>

SlackNext ==
    \/ LogDebug
    \/ LogInfo
    \/ LogWarning
    \/ LogError
    \/ TimerFires
    \/ Dispose
    \/ \E f \in DOMAIN flushes, ok \in BOOLEAN : PostMessageDone(f, ok)
    \/ \E f \in DOMAIN flushes, ok \in BOOLEAN : FallbackCallDone(f, ok)
    \/ \E f \in DOMAIN flushes, ok \in BOOLEAN : CatchDone(f, ok)

-----------------------------------------------------------------------------
(* FileLogger *)

\* Duration.fromDays(1), in the clock's unit (hours).
HoursPerDay == 24

\* The clock when the sink is constructed.
StartHour == 3 * HoursPerDay

\* The instants the clock of a run passes through: the construction, an hour
\* later, and a day after that.
Instants == { StartHour, StartHour + 1, StartHour + 1 + HoursPerDay }

\* The sinks the model constructs: the configuration and the log directory found
\* (empty, or holding one file created three days earlier).
FileSetups ==
    { [cfg |-> [env |-> "dev",  useJsonFormat |-> FALSE, logInjector |-> "none",   retentionDays |-> 1],
       dir |-> (0 :> [birth |-> 0, lines |-> <<>>])],
      [cfg |-> [env |-> "prod", useJsonFormat |-> TRUE,  logInjector |-> "tag",    retentionDays |-> 2],
       dir |-> <<>>],
      [cfg |-> [env |-> "dev",  useJsonFormat |-> TRUE,  logInjector |-> "throws", retentionDays |-> 1],
       dir |-> <<>>] }

\* given(message, "message").ensureHasValue().ensureIsString(): throws for
\* null/undefined and for an empty string.
MessageIsValid(message) == message \notin {"", "undefined"}

LevelOfPrefix(status) ==
    CASE status = "APP DEBUG:"   -> "Debug"
      [] status = "APP INFO:"    -> "Info"
      [] status = "APP WARNING:" -> "Warn"
      [] status = "APP ERROR:"   -> "Error"

\* The line _writeToLog builds for call c: JSON.stringify(log) after the
\* transform in JSON mode, "<dateTime> <status> <message>" otherwise.
BuildLine(c, status) ==
    IF fcfg.useJsonFormat
    THEN [call |-> c, json |-> TRUE, level |-> LevelOfPrefix(status),
          injected |-> (fcfg.logInjector = "tag")]
    ELSE [call |-> c, json |-> FALSE, level |-> status, injected |-> FALSE]

\* Mutant of LockIsFree: lock() resolves at once whoever holds the mutex.
LockIsFree_Always == TRUE

\* Mutex.lock(): the returned promise is resolved at once iff no lock() is pending.
LockIsFree == mutexQueue = <<>>

\* Mutex.release() by holder c: c leaves the queue and the next pending lock()
\* is resolved, so that call's appendFile starts.
QueueAfterRelease(c) == SelectSeq(mutexQueue, LAMBDA x : x # c)

CallsAfterRelease(cs, c) ==
    LET q == QueueAfterRelease(c)
    IN IF q # <<>> /\ cs[q[1]].pc = "waiting"
       THEN [cs EXCEPT ![q[1]].pc = "appending"]
       ELSE cs

\* No _purgeLogs invocation is in progress. doneAt is history: the clock when
\* the last sweep that ran to its end returned (0: none has).
SweepEnded(doneAt) == [now |-> 0, todo |-> <<>>, doneAt |-> doneAt]

NoSweep == SweepEnded(0)

\* Mutant of WriteFailed: the mutex is released only after a successful write.
WriteFailed_NoRelease(c, what) ==
    /\ diag' = Append(diag, [call |-> c, what |-> what])
    /\ calls' = [calls EXCEPT ![c].pc = "resolved", ![c].failure = what]
    /\ mutexQueue' = mutexQueue
    /\ sweep' = SweepEnded(sweep.doneAt)
    /\ UNCHANGED <<files, lastPurgedAt>>

\* Mutant of WriteFailed: a failed write counts as a purge.
WriteFailed_CountsAsPurge(c, what) ==
    /\ diag' = Append(diag, [call |-> c, what |-> what])
    /\ calls' = CallsAfterRelease([calls EXCEPT ![c].pc = "resolved", ![c].failure = what], c)
    /\ mutexQueue' = QueueAfterRelease(c)
    /\ sweep' = SweepEnded(sweep.doneAt)
    /\ lastPurgedAt' = now
    /\ UNCHANGED files

\* Mutant of WriteFailed: the error is rethrown to the caller.
WriteFailed_Rethrown(c, what) ==
    /\ diag' = diag
    /\ calls' = CallsAfterRelease([calls EXCEPT ![c].pc = "rejected", ![c].failure = what], c)
    /\ mutexQueue' = QueueAfterRelease(c)
    /\ sweep' = SweepEnded(sweep.doneAt)
    /\ UNCHANGED <<files, lastPurgedAt>>

\* The catch and finally blocks of _writeToLog: console.error(error), release;
\* the call's promise resolves.
WriteFailed(c, what) ==
    /\ diag' = Append(diag, [call |-> c, what |-> what])
    /\ calls' = CallsAfterRelease([calls EXCEPT ![c].pc = "resolved", ![c].failure = what], c)
    /\ mutexQueue' = QueueAfterRelease(c)
    /\ sweep' = SweepEnded(sweep.doneAt)
    /\ UNCHANGED <<files, lastPurgedAt>>

\* The try block ran to its end: finally releases, the call's promise resolves.
WriteSucceeded(c, doneAt) ==
    /\ calls' = CallsAfterRelease([calls EXCEPT ![c].pc = "resolved"], c)
    /\ mutexQueue' = QueueAfterRelease(c)
    /\ sweep' = SweepEnded(doneAt)
    /\ UNCHANGED diag

FileFrame == UNCHANGED <<fcfg, svars, bvars>>

\* A logging call that ends before it asks for the lock.
NoWrite(outcome) ==
    [pc |-> outcome, file |-> 0, line |-> <<>>, failure |-> "none"]

\* A logging call up to its first suspension: the message is rendered and
\* validated, the line is built (transform in JSON mode), and lock() is called.
\* A throw before lock() rejects the call's promise.
WriteToLog(op, status, message) ==
    LET c == Len(calls) + 1
        entry == [pc |-> "resolved", file |-> now, line |-> BuildLine(c, status),
                  failure |-> "none"]
    IN /\ Len(calls) < MaxCalls
       /\ IF ~MessageIsValid(message) \/ (fcfg.useJsonFormat /\ fcfg.logInjector = "throws")
          THEN /\ calls' = Append(calls, NoWrite("rejected"))
               /\ UNCHANGED mutexQueue
          ELSE /\ calls' = Append(calls,
                      [entry EXCEPT !.pc = IF LockIsFree THEN "appending" ELSE "waiting"])
               /\ mutexQueue' = Append(mutexQueue, c)
       /\ UNCHANGED <<now, files, lastPurgedAt, sweep, diag>>
       /\ FileFrame

FileLogDebug ==
    \E debug \in {"text", ""} :
        IF fcfg.env = "dev"
        THEN WriteToLog("logDebug", "APP DEBUG:", debug)
        ELSE /\ Len(calls) < MaxCalls
             /\ calls' = Append(calls, NoWrite("resolved"))
             /\ UNCHANGED <<now, files, lastPurgedAt, mutexQueue, sweep, diag>>
             /\ FileFrame

FileLogInfo == \E info \in {"text", ""} : WriteToLog("logInfo", "APP INFO:", info)

FileLogWarning ==
    \E warning \in ErrorInputs : WriteToLog("logWarning", "APP WARNING:", GetErrorMessage(warning))

FileLogError ==
    \E error \in ErrorInputs : WriteToLog("logError", "APP ERROR:", GetErrorMessage(error))

\* Mutant of AppendLine: the file is named for the hour of the append, not for
\* the hour the line was stamped with.
AppendLine_HourOfAppend(dir, name, line) ==
    IF now \in DOMAIN dir
    THEN [dir EXCEPT ![now].lines = Append(@, line)]
    ELSE dir @@ (now :> [birth |-> now, lines |-> <<line>>])

\* Fs.promises.appendFile(logFilePath, "\n" + message): the file is created when
\* it does not exist.
AppendLine(dir, name, line) ==
    IF name \in DOMAIN dir
    THEN [dir EXCEPT ![name].lines = Append(@, line)]
    ELSE dir @@ (name :> [birth |-> now, lines |-> <<line>>])

\* Mutant of PurgeNotDue: the window of the first sweep runs from the
\* construction.
PurgeNotDue_SinceConstruction ==
    (IF lastPurgedAt = 0 THEN StartHour ELSE lastPurgedAt) > now - fcfg.retentionDays * HoursPerDay

\* Mutant of PurgeNotDue: no rate limit, every write sweeps.
PurgeNotDue_Never == FALSE

\* The rate limit at the head of _purgeLogs.
PurgeNotDue ==
    lastPurgedAt # 0 /\ lastPurgedAt > now - fcfg.retentionDays * HoursPerDay

\* The names Fs.readdir lists, in ascending order.
RECURSIVE SortedNames(_)
SortedNames(names) ==
    IF names = {} THEN <<>>
    ELSE LET least == CHOOSE n \in names : \A o \in names : n <= o
         IN <<least>> \o SortedNames(names \ {least})

\* appendFile settles. On success _purgeLogs starts: it returns at once when not
\* due, otherwise it takes `now` and calls readdir.
AppendDone(c, ok) ==
    /\ c \in DOMAIN calls
    /\ calls[c].pc = "appending"
    /\ IF ok
       THEN /\ files' = AppendLine(files, calls[c].file, calls[c].line)
            /\ IF PurgeNotDue
               THEN WriteSucceeded(c, sweep.doneAt)
               ELSE /\ calls' = [calls EXCEPT ![c].pc = "listing"]
                    /\ sweep' = [now |-> now, todo |-> <<>>, doneAt |-> sweep.doneAt]
                    /\ UNCHANGED <<mutexQueue, diag>>
            /\ UNCHANGED lastPurgedAt
       ELSE WriteFailed(c, "append")
    /\ UNCHANGED now
    /\ FileFrame

\* forEachAsync(.., 1) moves on: stat of the next file, or the sweep is complete.
SweepContinues(c, todo) ==
    IF todo = <<>>
    THEN /\ lastPurgedAt' = sweep.now
         /\ WriteSucceeded(c, now)
    ELSE /\ calls' = [calls EXCEPT ![c].pc = "stat"]
         /\ sweep' = [sweep EXCEPT !.todo = todo]
         /\ UNCHANGED <<lastPurgedAt, mutexQueue, diag>>

\* Fs.readdir settles.
ReaddirDone(c, ok) ==
    /\ c \in DOMAIN calls
    /\ calls[c].pc = "listing"
    /\ IF ok
       THEN /\ SweepContinues(c, SortedNames(DOMAIN files))
            /\ UNCHANGED files
       ELSE WriteFailed(c, "readdir")
    /\ UNCHANGED now
    /\ FileFrame

\* Mutant of IsExpired: a file exactly retentionDays old is expired too.
IsExpired_Inclusive(birth) == birth <= sweep.now - fcfg.retentionDays * HoursPerDay

\* The retention test of the sweep on a file's birthtime.
IsExpired(birth) == birth < sweep.now - fcfg.retentionDays * HoursPerDay

\* Fs.stat of the head of the list settles: an expired file is unlinked.
StatDone(c, ok) ==
    /\ c \in DOMAIN calls
    /\ calls[c].pc = "stat"
    /\ IF ok
       THEN IF IsExpired(files[sweep.todo[1]].birth)
            THEN /\ calls' = [calls EXCEPT ![c].pc = "unlink"]
                 /\ UNCHANGED <<files, lastPurgedAt, mutexQueue, sweep, diag>>
            ELSE /\ SweepContinues(c, Tail(sweep.todo))
                 /\ UNCHANGED files
       ELSE WriteFailed(c, "stat")
    /\ UNCHANGED now
    /\ FileFrame

\* Fs.unlink of the head of the list settles.
UnlinkDone(c, ok) ==
    /\ c \in DOMAIN calls
    /\ calls[c].pc = "unlink"
    /\ IF ok
       THEN /\ files' = [n \in DOMAIN files \ {sweep.todo[1]} |-> files[n]]
            /\ SweepContinues(c, Tail(sweep.todo))
       ELSE WriteFailed(c, "unlink")
    /\ UNCHANGED now
    /\ FileFrame

\* Time passes: by an hour or by a day.
AdvanceClock ==
    /\ \E step \in {1, HoursPerDay} :
          /\ now + step \in Instants
          /\ now' = now + step
    /\ UNCHANGED <<files, lastPurgedAt, mutexQueue, calls, sweep, diag>>
    /\ FileFrame

\* An I/O operation of the write path settles.
IOSettles ==
    \E c \in 1..MaxCalls, ok \in BOOLEAN :
        AppendDone(c, ok) \/ ReaddirDone(c, ok) \/ StatDone(c, ok) \/ UnlinkDone(c, ok)

FileInit ==
    /\ \E setup \in FileSetups : fcfg = setup.cfg /\ files = setup.dir
    /\ now = StartHour
    /\ lastPurgedAt = 0
    /\ mutexQueue = <<>>
    /\ calls = <<>>
    /\ sweep = NoSweep
    /\ diag = <<>>

FileNext ==
    \/ FileLogDebug
    \/ FileLogInfo
    \/ FileLogWarning
    \/ FileLogError
    \/ \E c \in 1..MaxCalls, ok \in BOOLEAN : AppendDone(c, ok)
    \/ \E c \in 1..MaxCalls, ok \in BOOLEAN : ReaddirDone(c, ok)
    \/ \E c \in 1..MaxCalls, ok \in BOOLEAN : StatDone(c, ok)
    \/ \E c \in 1..MaxCalls, ok \in BOOLEAN : UnlinkDone(c, ok)
    \/ AdvanceClock

-----------------------------------------------------------------------------
(* FileLogger: the constructor *)

\* config.retentionDays is modelled in half days: h stands for h / 2.
MaxRetentionHalves == 8

\* A value a caller did not pass (undefined or null).
Missing == [given |-> FALSE, value |-> 0]

Given(v) == [given |-> TRUE, value |-> v]

\* What a caller may pass as config.retentionDays: nothing, or a number from -1
\* to MaxRetentionHalves / 2 in steps of a half.
RetentionInputs == {Missing} \cup { Given(h) : h \in -2 .. MaxRetentionHalves }

\* What a caller may pass as config.logDirPath, as characters: absolute paths,
\* relative paths, the empty string, nothing.
PathInputs ==
    {[given |-> FALSE, value |-> <<>>]} \cup
    { Given(chars) : chars \in { <<"/", "l">>, <<"/">>, <<"l">>, <<".", "/", "l">>,
                                 <<".", ".", "/", "l">>, <<>> } }

\* given(logDirPath).ensureHasValue().ensureIsString().ensure(Path.isAbsolute).
PathIsValid(path) == path.given /\ path.value # <<>> /\ path.value[1] = "/"

\* given(retentionDays).ensureHasValue().ensureIsNumber().ensure(t => t > 0).
RetentionIsValid(retention) == retention.given /\ retention.value > 0

\* Number.parseInt(retentionDays.toString()) of a positive number: the digits
\* before the decimal point.
ParseInt(retention) == retention.value \div 2

\* The configurations the constructor is called with, and whether the
\* directory exists.
FileConfigInputs ==
    [logDirPath : PathInputs, retentionDays : RetentionInputs, dirExists : BOOLEAN]

\* new FileLogger(config): validation, then the fields and the directory.
FileConstruct ==
    /\ fcfg.state = "new"
    /\ IF PathIsValid(fcfg.config.logDirPath) /\ RetentionIsValid(fcfg.config.retentionDays)
       THEN fcfg' = [fcfg EXCEPT !.state = "constructed",
                                 !.retentionDays = ParseInt(fcfg.config.retentionDays),
                                 !.dirExists = TRUE]
       ELSE fcfg' = [fcfg EXCEPT !.state = "failed"]
    /\ UNCHANGED <<now, files, lastPurgedAt, mutexQueue, calls, sweep, diag, svars, bvars>>

FileConstructInit ==
    /\ \E config \in FileConfigInputs :
          fcfg = [state |-> "new", config |-> config, retentionDays |-> 0,
                  dirExists |-> config.dirExists]
    /\ now = StartHour
    /\ files = <<>>
    /\ lastPurgedAt = 0
    /\ mutexQueue = <<>>
    /\ calls = <<>>
    /\ sweep = NoSweep
    /\ diag = <<>>

FileConstructNext == FileConstruct

-----------------------------------------------------------------------------
(* SlackLogger: the constructor *)

\* What a caller may pass where a string is expected, by kind: nothing
\* (undefined or null), the empty string, a string with characters, a number.
ValueKinds == {"missing", "empty", "string", "number"}

\* What a caller may pass as config.filter: nothing, an array of level names
\* (Debug and Fatal are not on the list of the constructor), or a string.
FilterInputs ==
    { [kind |-> "missing", items |-> {}],
      [kind |-> "array", items |-> {}],
      [kind |-> "array", items |-> {"Warn", "Error"}],
      [kind |-> "array", items |-> {"Info", "Debug"}],
      [kind |-> "array", items |-> {"Fatal"}],
      [kind |-> "string", items |-> {}] }

\* The configurations the constructor is called with.
SlackConfigInputs ==
    [slackBotToken : ValueKinds,
     slackBotChannel : {"missing", "string", "number"},
     slackUserName : {"missing", "number"},
     slackUserImage : {"missing", "string", "number"},
     filter : FilterInputs,
     logFilter : {"missing", "function", "string"}]

\* given(v).ensureHasValue().ensureIsString()
HasValueAndIsString(v) == v = "string"

\* given(v).ensureIsString(): a missing value passes.
IsStringIfGiven(v) == v \in {"missing", "empty", "string"}

\* const filter = config.filter ?? allFilters;
\* given(filter).ensureIsArray().ensure(t => t.every(u => allFilters.contains(u)))
FilterIsValid(filter) ==
    \/ filter.kind = "missing"
    \/ filter.kind = "array" /\ filter.items \subseteq AllFilters

\* given(logFilter).ensureIsFunction(): a missing value passes.
IsFunctionIfGiven(v) == v \in {"missing", "function"}

\* The first check of the constructor that throws for a configuration, in the
\* order of the code ("none": all pass).
FirstFailure(config) ==
    CASE ~HasValueAndIsString(config.slackBotToken)   -> "slackBotToken"
      [] ~HasValueAndIsString(config.slackBotChannel) -> "slackBotChannel"
      [] ~IsStringIfGiven(config.slackUserName)       -> "slackUserName"
      [] ~IsStringIfGiven(config.slackUserImage)      -> "slackUserImage"
      [] ~FilterIsValid(config.filter)                -> "filter"
      [] ~IsFunctionIfGiven(config.logFilter)         -> "logFilter"
      [] OTHER                                        -> "none"

\* Mutant of SlackConstruct: the timer is started before the checks.
SlackConstruct_TimerFirst ==
    /\ cfg.state = "new"
    /\ timerActive' = TRUE
    /\ IF FirstFailure(cfg.config) = "none"
       THEN cfg' = [cfg EXCEPT
                      !.state = "constructed",
                      !.filter = IF cfg.config.filter.kind = "missing"
                                 THEN AllFilters ELSE cfg.config.filter.items]
       ELSE cfg' = [cfg EXCEPT !.state = "failed", !.failedAt = FirstFailure(cfg.config)]
    /\ UNCHANGED <<messages, isDisposed, disposePromise, flushes, posted, consoleLog,
                   appendLog, rejectedCalls, returned, fvars, bvars>>

\* new SlackLogger(config): the checks in the order of the code, any of which
\* throws out of the constructor; then the fields, and last setInterval.
SlackConstruct ==
    /\ cfg.state = "new"
    /\ IF FirstFailure(cfg.config) = "none"
       THEN /\ cfg' = [cfg EXCEPT
                         !.state = "constructed",
                         !.filter = IF cfg.config.filter.kind = "missing"
                                    THEN AllFilters ELSE cfg.config.filter.items]
            /\ timerActive' = TRUE
       ELSE /\ cfg' = [cfg EXCEPT !.state = "failed", !.failedAt = FirstFailure(cfg.config)]
            /\ UNCHANGED timerActive
    /\ UNCHANGED <<messages, isDisposed, disposePromise, flushes, posted, consoleLog,
                   appendLog, rejectedCalls, returned, fvars, bvars>>

SlackConstructInit ==
    /\ \E config \in SlackConfigInputs :
          cfg = [state |-> "new", config |-> config, filter |-> {}, failedAt |-> "none"]
    /\ messages = <<>>
    /\ timerActive = FALSE
    /\ isDisposed = FALSE
    /\ disposePromise = [kind |-> "null", id |-> 0]
    /\ flushes = <<>>
    /\ posted = <<>>
    /\ consoleLog = <<>>
    /\ appendLog = <<>>
    /\ rejectedCalls = 0
    /\ returned = <<>>

\* The two constructors, each called once.
ConstructNext == SlackConstruct \/ FileConstruct

-----------------------------------------------------------------------------
(* BaseLogger: getErrorMessage *)

NoErrorCall == [pc |-> "idle", exp |-> "", logMessage |-> "", warned |-> FALSE]

\* The rendering of the argument throws: toString() throws, or the argument is
\* null or undefined and has no toString.
RenderingThrows(exp) == exp \in {"ThrowingToString", "null"}

\* getErrorMessage(exp): the rendering, and console.warn in the catch block.
GetErrorMessageCall ==
    /\ errorCall.pc = "idle"
    /\ \E exp \in ErrorInputs :
          errorCall' = [pc |-> "returned", exp |-> exp,
                        logMessage |-> GetErrorMessage(exp),
                        warned |-> RenderingThrows(exp)]
    /\ UNCHANGED <<conversion, builder, svars, fvars>>

-----------------------------------------------------------------------------
(* BaseLogger: _fromString and _toNumberString *)

\* The longest string the model converts, in characters.
MaxHexLen == 17

\* The digits of radix 16; HexChars[d + 1] is Number.toString of the digit d.
HexChars == << "0", "1", "2", "3", "4", "5", "6", "7",
               "8", "9", "a", "b", "c", "d", "e", "f" >>

\* What parseInt returns for a character that is not a digit of the radix; the
\* code tests it with !(chr >= 0).
NaN == -1

\* parseInt(chr, raddix) of one character.
ParseDigit(chr, raddix) ==
    IF \E d \in 0 .. raddix - 1 : HexChars[d + 1] = chr
    THEN CHOOSE d \in 0 .. raddix - 1 : HexChars[d + 1] = chr
    ELSE NaN

\* The base of the digits a number is held in.
LimbBase == 65536

\* A number of the code is a non-negative integer here, held as its digits in
\* base 2^16, the least significant first and the most significant one not zero
\* (zero is the empty sequence): the values reach 2^64, beyond the 32-bit
\* integers of TLC.
RECURSIVE Norm(_)
Norm(n) ==
    IF n = <<>> THEN <<>>
    ELSE IF n[Len(n)] = 0 THEN Norm(SubSeq(n, 1, Len(n) - 1)) ELSE n

\* The digits of n * m + c, for m <= 16.
RECURSIVE MulAddFrom(_, _, _)
MulAddFrom(n, m, c) ==
    IF n = <<>>
    THEN IF c = 0 THEN <<>> ELSE <<c % LimbBase>> \o MulAddFrom(<<>>, m, c \div LimbBase)
    ELSE <<(n[1] * m + c) % LimbBase>> \o
         MulAddFrom(Tail(n), m, (n[1] * m + c) \div LimbBase)

MulAdd(n, m, c) == Norm(MulAddFrom(n, m, c))

\* A small integer as a number.
Num(k) == MulAdd(<<>>, 1, k)

RECURSIVE AddFrom(_, _, _)
AddFrom(a, b, carry) ==
    IF a = <<>> /\ b = <<>>
    THEN IF carry = 0 THEN <<>> ELSE <<carry>>
    ELSE LET x == IF a = <<>> THEN 0 ELSE a[1]
             y == IF b = <<>> THEN 0 ELSE b[1]
             ra == IF a = <<>> THEN <<>> ELSE Tail(a)
             rb == IF b = <<>> THEN <<>> ELSE Tail(b)
         IN  <<(x + y + carry) % LimbBase>> \o AddFrom(ra, rb, (x + y + carry) \div LimbBase)

\* a + b
Add(a, b) == Norm(AddFrom(a, b, 0))

\* Math.floor(n / d) and n % d for d <= 16, by long division from the most
\* significant digit (digit i) down.
RECURSIVE DivModFrom(_, _, _, _, _)
DivModFrom(n, d, i, r, q) ==
    IF i = 0 THEN [q |-> Norm(q), r |-> r]
    ELSE DivModFrom(n, d, i - 1, (r * LimbBase + n[i]) % d,
                    <<(r * LimbBase + n[i]) \div d>> \o q)

DivMod(n, d) == DivModFrom(n, d, Len(n), 0, <<>>)

\* _UINT_MAX = 4294967296 = 65536^2: the number of digits below it.
UIntMaxDigits == 2

\* Math.floor(n / this._UINT_MAX)
DivUIntMax(n) == SubSeq(n, UIntMaxDigits + 1, Len(n))

\* Mutant of ModUIntMax: the low half is not reduced.
ModUIntMax_NotReduced(n) == n

\* n % this._UINT_MAX
ModUIntMax(n) ==
    Norm(SubSeq(n, 1, IF Len(n) < UIntMaxDigits THEN Len(n) ELSE UIntMaxDigits))

\* n * this._UINT_MAX
TimesUIntMax(n) == IF n = <<>> THEN <<>> ELSE [i \in 1 .. UIntMaxDigits |-> 0] \o n

\* The integers a double holds exactly: n < 2^53 = 32 * 65536^3.
IsSafeInteger(n) == Len(n) < 4 \/ (Len(n) = 4 /\ n[4] < 32)

\* One round of the while loop of _fromString on the locals s, for the
\* character chr: broken records the break at a character that is no digit,
\* safe that every value computed so far was held exactly.
FromStringRound(s, chr, raddix) ==
    LET d == ParseDigit(chr, raddix)
        low1 == MulAdd(s.low, raddix, d)
        high1 == Add(MulAdd(s.high, raddix, 0), DivUIntMax(low1))
    IN  IF ~(d >= 0)
        THEN [s EXCEPT !.broken = TRUE]
        ELSE [high |-> high1, low |-> ModUIntMax(low1),
              safe |-> s.safe /\ IsSafeInteger(low1) /\ IsSafeInteger(high1),
              broken |-> FALSE]

\* The rounds of the while loop of _fromString for the characters i to j, from
\* the locals s: those for the first half of them, then, unless the loop was
\* left, those for the second half.
RECURSIVE FromStringLoop(_, _, _, _, _)
FromStringLoop(str, raddix, s, i, j) ==
    IF s.broken \/ i > j THEN s
    ELSE IF i = j THEN FromStringRound(s, str[i], raddix)
    ELSE LET first == FromStringLoop(str, raddix, s, i, (i + j) \div 2)
         IN  IF first.broken THEN first
             ELSE FromStringLoop(str, raddix, first, (i + j) \div 2 + 1, j)

\* ToInt32 of a number: its low 32 bits as a signed integer.
ToInt32(n) ==
    LET lo == IF Len(n) >= 1 THEN n[1] ELSE 0
        hi == IF Len(n) >= 2 THEN n[2] ELSE 0
    IN  (IF hi >= LimbBase \div 2 THEN hi - LimbBase ELSE hi) * LimbBase + lo

\* value & 255 of a 32-bit integer
And255(value) == value % 256

\* value >> 8 of a 32-bit integer: the sign is kept.
ShiftRight8(value) == value \div 256

\* _writeUInt32BE(buffer, value, offset): the four bytes written, buffer[offset]
\* first.
WriteUInt32BE(value) ==
    LET v0 == ToInt32(value)
        v1 == ShiftRight8(v0)
        v2 == ShiftRight8(v1)
        v3 == ShiftRight8(v2)
    IN  << And255(v3), And255(v2), And255(v1), And255(v0) >>

\* _fromString(str, raddix) of a string that does not start with "-" (an id of
\* a span context never does): the 8 bytes of the buffer.
FromString(str, raddix) ==
    LET r == FromStringLoop(str, raddix,
                            [high |-> <<>>, low |-> <<>>, safe |-> TRUE, broken |-> FALSE],
                            1, Len(str))
    IN  [buffer |-> WriteUInt32BE(r.high) \o WriteUInt32BE(r.low), safe |-> r.safe]

\* _readInt32(buffer, offset): buffer[offset] * 16777216 + (buffer[offset + 1] << 16)
\* + (buffer[offset + 2] << 8) + buffer[offset + 3]; the terms are non-negative
\* and share no bit, and the product is a floating-point one.
ReadInt32(buffer, offset) ==
    Norm(<< buffer[offset + 3] * 256 + buffer[offset + 4],
            buffer[offset + 1] * 256 + buffer[offset + 2] >>)

\* One round of the while loop of _toNumberString on the locals s; ended
\* records the break.
ToNumberStringRound(s, radix) ==
    LET h == DivMod(s.high, radix)
        mod == Add(TimesUIntMax(Num(h.r)), s.low)
        m == DivMod(mod, radix)
    IN  [high |-> h.q, low |-> m.q, str |-> <<HexChars[m.r + 1]>> \o s.str,
         safe |-> s.safe /\ IsSafeInteger(mod),
         ended |-> (h.q = <<>> /\ m.q = <<>>)]

\* The while loop of _toNumberString from the locals s, followed for 2^k rounds
\* at most: 2^(k-1) rounds, then, unless the loop was left, 2^(k-1) more.
RECURSIVE ToNumberStringLoop(_, _, _)
ToNumberStringLoop(s, radix, k) ==
    IF s.ended THEN s
    ELSE IF k = 0 THEN ToNumberStringRound(s, radix)
    ELSE LET first == ToNumberStringLoop(s, radix, k - 1)
         IN  IF first.ended THEN first ELSE ToNumberStringLoop(first, radix, k - 1)

\* The rounds of the loop of _toNumberString the model follows: 2^5.
RoundsLog2 == 5

\* Mutant of ToNumberString: the digits are padded with a zero on the left.
ToNumberString_Padded(buffer, radix) ==
    LET r == ToNumberStringLoop([high |-> ReadInt32(buffer, 0), low |-> ReadInt32(buffer, 4),
                                 str |-> <<>>, safe |-> TRUE, ended |-> FALSE],
                                radix, RoundsLog2)
    IN  [r EXCEPT !.str = <<"0">> \o r.str]

\* _toNumberString(buffer, radix): the locals when the loop is left (ended), or
\* after 2^RoundsLog2 rounds.
ToNumberString(buffer, radix) ==
    ToNumberStringLoop([high |-> ReadInt32(buffer, 0), low |-> ReadInt32(buffer, 4),
                        str |-> <<>>, safe |-> TRUE, ended |-> FALSE],
                       radix, RoundsLog2)

\* The characters the strings of the model are made of: hex digits, and one
\* character that is no digit.
SampleChars == {"0", "1", "9", "a", "f", "g"}

Repeat(chr, k) == [i \in 1 .. k |-> chr]

\* The strings the model converts: up to two zeros, up to two characters of the
\* sample, then a run of one digit, MaxHexLen characters at most.
HexInputs ==
    { str \in { Repeat("0", z) \o body \o Repeat(fill, t) :
                  z \in 0 .. 2,
                  body \in {<<>>} \cup [1 .. 1 -> SampleChars] \cup [1 .. 2 -> SampleChars],
                  fill \in {"0", "8", "f"},
                  t \in 0 .. MaxHexLen } :
        Len(str) <= MaxHexLen }

\* this._fromString(str, 16) in injectTrace.
FromStringCall ==
    /\ conversion.pc = "new"
    /\ LET r == FromString(conversion.str, 16)
       IN  conversion' = [conversion EXCEPT !.pc = "buffer", !.buffer = r.buffer,
                                            !.safe = r.safe]
    /\ UNCHANGED <<errorCall, builder, svars, fvars>>

\* this._toNumberString(buffer) in injectTrace: the radix defaults to 10.
ToNumberStringCall ==
    /\ conversion.pc = "buffer"
    /\ LET r == ToNumberString(conversion.buffer, 10)
       IN  conversion' = [conversion EXCEPT !.pc = IF r.ended THEN "done" ELSE "looping",
                                            !.numberString = r.str,
                                            !.safe = conversion.safe /\ r.safe]
    /\ UNCHANGED <<errorCall, builder, svars, fvars>>

NoConversion == [pc |-> "idle", str |-> <<>>, buffer |-> <<>>, numberString |-> <<>>,
                 safe |-> TRUE]

-----------------------------------------------------------------------------
(* BaseLogger: identity and injectTrace; FileLogger: the message _writeToLog
   builds *)

\* The messages one run builds at most.
MaxBuilt == 2

\* String.toLowerCase on the env values of the model.
ToLowerCase(str) ==
    CASE str = "DEV"  -> "dev"
      [] str = "Prod" -> "prod"
      [] OTHER        -> str

\* The initializer of _service: package_name, else package.name, else "n-log".
Service(config) ==
    IF config.package_name.given THEN config.package_name.value
    ELSE IF config.packageName.given THEN config.packageName.value
    ELSE "n-log"

\* The initializer of _env: the configured env lower-cased, else "dev".
Env(config) == IF config.env.given THEN ToLowerCase(config.env.value) ELSE "dev"

NoString == [given |-> FALSE, value |-> ""]

\* What ConfigurationManager holds (package_name, package.name, env) and what
\* the constructor is given.
BuilderConfigs ==
    { [package_name |-> Given("svc"), packageName |-> Given("pkg"), env |-> Given("Prod"),
       useJsonFormat |-> TRUE, logInjector |-> "none", enableOtelToDatadogTraceConversion |-> FALSE],
      [package_name |-> NoString, packageName |-> Given("pkg"), env |-> Given("DEV"),
       useJsonFormat |-> TRUE, logInjector |-> "tag", enableOtelToDatadogTraceConversion |-> TRUE],
      [package_name |-> NoString, packageName |-> NoString, env |-> NoString,
       useJsonFormat |-> FALSE, logInjector |-> "tag", enableOtelToDatadogTraceConversion |-> TRUE],
      [package_name |-> NoString, packageName |-> NoString, env |-> Given("test"),
       useJsonFormat |-> TRUE, logInjector |-> "none", enableOtelToDatadogTraceConversion |-> TRUE] }

\* span.setStatus was not called.
StatusUnset == [code |-> "UNSET", message |-> ""]

\* trace.getSpan(context.active()) returned undefined.
NoSpan == [present |-> FALSE, traceId |-> <<>>, spanId |-> <<>>, traceFlags |-> 0,
           status |-> StatusUnset]

\* The active spans of the model: none, two with an invalid context (all-zero
\* ids; a valid trace id with an all-zero span id), two with a valid one.
Spans ==
    { NoSpan,
      [NoSpan EXCEPT !.present = TRUE, !.traceId = Repeat("0", 32), !.spanId = Repeat("0", 16)],
      [NoSpan EXCEPT !.present = TRUE, !.traceId = Repeat("a", 32), !.spanId = Repeat("0", 16)],
      [NoSpan EXCEPT !.present = TRUE, !.traceId = Repeat("1", 16) \o Repeat("f", 16),
                     !.spanId = Repeat("0", 14) \o <<"a", "f">>, !.traceFlags = 1],
      [NoSpan EXCEPT !.present = TRUE, !.traceId = Repeat("0", 31) \o <<"1">>,
                     !.spanId = Repeat("8", 16)] }

\* isValidTraceId / isValidSpanId: len lower-case hex digits, not all of them 0.
IsValidId(id, len) ==
    /\ Len(id) = len
    /\ \A i \in DOMAIN id : ParseDigit(id[i], 16) >= 0
    /\ \E i \in DOMAIN id : id[i] # "0"

\* isSpanContextValid(spanContext)
IsSpanContextValid(span) == IsValidId(span.traceId, 32) /\ IsValidId(span.spanId, 16)

\* The record _writeToLog builds (dateTime and time left out), without trace
\* fields yet.
NewRecord(level, message) ==
    [source |-> "nodejs", service |-> builder.service, env |-> builder.env,
     level |-> level, message |-> message,
     hasTrace |-> FALSE, trace_id |-> <<>>, span_id |-> <<>>, trace_flags |-> <<>>,
     hasDd |-> FALSE, dd_trace_id |-> <<>>, dd_span_id |-> <<>>,
     injected |-> FALSE]

\* spanContext.traceId.slice(spanContext.traceId.length / 2)
TraceIdEnd(traceId) == SubSeq(traceId, Len(traceId) \div 2 + 1, Len(traceId))

\* Mutant of InjectTrace: the status is set whatever the level.
InjectTrace_StatusAlways(log, isError, span) ==
    IF span.present /\ IsSpanContextValid(span)
    THEN [log  |-> [log EXCEPT !.hasTrace = TRUE, !.trace_id = span.traceId,
                               !.span_id = span.spanId,
                               !.trace_flags = <<"0", HexChars[span.traceFlags + 1]>>],
          span |-> [span EXCEPT !.status = [code |-> "ERROR", message |-> log.message]]]
    ELSE [log |-> log, span |-> span]

\* injectTrace(log, isError): the record and the span after the call.
InjectTrace(log, isError, span) ==
    IF span.present /\ IsSpanContextValid(span)
    THEN LET traced == [log EXCEPT !.hasTrace = TRUE, !.trace_id = span.traceId,
                                   !.span_id = span.spanId,
                                   !.trace_flags = <<"0", HexChars[span.traceFlags + 1]>>]
         IN [log  |-> IF builder.enableOtelToDatadogTraceConversion
                      THEN [traced EXCEPT
                               !.hasDd = TRUE,
                               !.dd_trace_id =
                                   ToNumberString(FromString(TraceIdEnd(span.traceId), 16).buffer, 10).str,
                               !.dd_span_id =
                                   ToNumberString(FromString(span.spanId, 16).buffer, 10).str]
                      ELSE traced,
             span |-> IF isError
                      THEN [span EXCEPT !.status = [code |-> "ERROR", message |-> log.message]]
                      ELSE span]
    ELSE [log |-> log, span |-> span]

\* What the plain line `${dateTime} ${status} ${message}` carries: the prefix
\* and the message.
PlainLine(status, message) ==
    [NewRecord(status, message) EXCEPT !.source = "", !.service = "", !.env = ""]

\* log = this.logInjector(log) of the model's transform, which adds a field.
Tag(log) == [log EXCEPT !.injected = TRUE]

\* Mutant of BuildMessage: the identity is read from the message.
BuildMessage_IdentityFromMessage(status, message) ==
    /\ Len(builder.built) < MaxBuilt
    /\ MessageIsValid(message)
    /\ builder' = [builder EXCEPT
          !.built = Append(@, [json |-> TRUE, status |-> status,
                               log |-> [NewRecord(LevelOfPrefix(status), message)
                                           EXCEPT !.service = message],
                               spanBefore |-> builder.span])]
    /\ UNCHANGED <<errorCall, conversion, svars, fvars>>

\* _writeToLog(status, message) up to the lock: the validation of the message
\* (an empty one throws and nothing is built),
\* then in JSON mode the record, injectTrace, the logInjector and
\* JSON.stringify, otherwise the plain line. spanBefore is history: the active
\* span when the call was made.
BuildMessage(status, message) ==
    /\ Len(builder.built) < MaxBuilt
    /\ MessageIsValid(message)
    /\ IF builder.useJsonFormat
       THEN LET level == LevelOfPrefix(status)
                r == InjectTrace(NewRecord(level, message), level = "Error", builder.span)
            IN  builder' = [builder EXCEPT
                   !.span = r.span,
                   !.built = Append(@, [json |-> TRUE, status |-> status,
                                        log |-> IF builder.logInjector = "tag"
                                                THEN Tag(r.log) ELSE r.log,
                                        spanBefore |-> builder.span])]
       ELSE builder' = [builder EXCEPT
                   !.built = Append(@, [json |-> FALSE, status |-> status,
                                        log |-> PlainLine(status, message),
                                        spanBefore |-> builder.span])]
    /\ UNCHANGED <<errorCall, conversion, svars, fvars>>

LogPrefixes == {"APP DEBUG:", "APP INFO:", "APP WARNING:", "APP ERROR:"}

BuildAny == \E status \in LogPrefixes, message \in {"text", ""} : BuildMessage(status, message)

NoBuilder ==
    [service |-> "n-log", env |-> "dev", useJsonFormat |-> FALSE, logInjector |-> "none",
     enableOtelToDatadogTraceConversion |-> FALSE, span |-> NoSpan, built |-> <<>>]

ConverterInit ==
    /\ \E str \in HexInputs : conversion = [NoConversion EXCEPT !.pc = "new", !.str = str]
    /\ errorCall = NoErrorCall
    /\ builder = NoBuilder

ConverterNext ==
    \/ FromStringCall
    \/ ToNumberStringCall

BuilderInit ==
    /\ \E config \in BuilderConfigs, span \in Spans :
          builder = [service |-> Service(config), env |-> Env(config),
                     useJsonFormat |-> config.useJsonFormat,
                     logInjector |-> config.logInjector,
                     enableOtelToDatadogTraceConversion |->
                         config.enableOtelToDatadogTraceConversion,
                     span |-> span, built |-> <<>>]
    /\ errorCall = NoErrorCall
    /\ conversion = NoConversion

BuilderNext ==
    \/ GetErrorMessageCall
    \/ BuildAny

-----------------------------------------------------------------------------
(* Specifications: each sink is run on its own, the other one constructed and
   left unused. *)

FileIdle ==
    /\ fcfg = [env |-> "dev", useJsonFormat |-> FALSE, logInjector |-> "none", retentionDays |-> 1]
    /\ now = StartHour
    /\ files = <<>>
    /\ lastPurgedAt = 0
    /\ mutexQueue = <<>>
    /\ calls = <<>>
    /\ sweep = NoSweep
    /\ diag = <<>>

SlackIdle ==
    /\ cfg = [env |-> "dev", filter |-> AllFilters, hasFallback |-> FALSE, logInjector |-> "none",
              texts |-> {"text"}]
    /\ messages = <<>>
    /\ timerActive = TRUE
    /\ isDisposed = FALSE
    /\ disposePromise = [kind |-> "null", id |-> 0]
    /\ flushes = <<>>
    /\ posted = <<>>
    /\ consoleLog = <<>>
    /\ appendLog = <<>>
    /\ rejectedCalls = 0
    /\ returned = <<>>

BaseIdle ==
    /\ errorCall = NoErrorCall
    /\ conversion = NoConversion
    /\ builder = NoBuilder

InitSlack == SlackInit /\ FileIdle /\ BaseIdle

InitFile == FileInit /\ SlackIdle /\ BaseIdle

SpecSlack == InitSlack /\ [][SlackNext]_vars

SpecFile == InitFile /\ [][FileNext]_vars

InitFileConstruct == FileConstructInit /\ SlackIdle /\ BaseIdle

InitConverter == ConverterInit /\ SlackIdle /\ FileIdle

SpecConverter == InitConverter /\ [][ConverterNext]_vars

InitBuilder == BuilderInit /\ SlackIdle /\ FileIdle

SpecBuilder == InitBuilder /\ [][BuilderNext]_vars

SpecFileConstruct == InitFileConstruct /\ [][FileConstructNext]_vars

InitConstruct == SlackConstructInit /\ FileConstructInit /\ BaseIdle

SpecConstruct == InitConstruct /\ [][ConstructNext]_vars

\* Every I/O operation the write path awaits terminates.
FairSpecFile == SpecFile /\ WF_vars(IOSettles)

-----------------------------------------------------------------------------
(* Remote Sink: what is observed of a run *)

\* The places where the record with text m sits in a flush's batch.
Carried(m) ==
    { p \in UNION { { <<f, i>> : i \in DOMAIN flushes[f].batch } : f \in DOMAIN flushes } :
        flushes[p[1]].batch[p[2]].message = m }

\* The places where the record with text m sits in the current batch.
Pending(m) == { i \in DOMAIN messages : messages[i].message = m }

\* The texts of the attachments of the outbound calls, in call order.
RECURSIVE PostedTexts(_)
PostedTexts(n) ==
    IF n = 0 THEN <<>>
    ELSE PostedTexts(n - 1) \o
         [i \in DOMAIN posted[n].attachments |-> posted[n].attachments[i].text]

\* The calls a flush made to the fallback logger from its catch block.
ReplayCalls(f) ==
    SelectSeq(flushes[f].fallback, LAMBDA e : e.ev = "call" /\ e.kind # "catch")

\* The fallback operation whose name matches a record's level.
OpOfLevel(level) ==
    CASE level = "Debug" -> "logDebug"
      [] level = "Info"  -> "logInfo"
      [] level = "Warn"  -> "logWarning"
      [] level = "Error" -> "logError"

\* C1 (as stated): every appended event is carried by exactly one flush: never by
\* two, and, once no flush can start any more (the timer is cancelled and dispose
\* has used its one flush), by one.
C1_EveryEventFlushedExactlyOnce ==
    \A k \in DOMAIN appendLog :
        LET m == appendLog[k].log.message
        IN /\ Cardinality(Carried(m)) <= 1
           /\ (isDisposed /\ ~timerActive) => Cardinality(Carried(m)) = 1

\* C1 (amended): an appended event is never duplicated and never lost from the
\* sink (it is in the current batch or in exactly one flush's batch, never both);
\* an event appended before the first dispose() call is carried by exactly one
\* flush once dispose has been called, and while it is still pending the timer is
\* live. Only events appended after dispose() stay in the batch unflushed.
C1_FlushedOnceUnlessLoggedAfterDispose ==
    \A k \in DOMAIN appendLog :
        LET m == appendLog[k].log.message
        IN /\ Cardinality(Carried(m)) + Cardinality(Pending(m)) = 1
           /\ (isDisposed /\ appendLog[k].disposeCalls = 0) => Cardinality(Carried(m)) = 1
           /\ (Pending(m) # {} /\ appendLog[k].disposeCalls = 0) => timerActive

\* C1 witness: one event was flushed by dispose and another, logged after dispose,
\* sits in the batch.
C1_Witness ==
    /\ isDisposed
    /\ \E f \in DOMAIN flushes : flushes[f].origin = "dispose"
    /\ \E k \in DOMAIN appendLog :
          appendLog[k].disposeCalls > 0 /\ Pending(appendLog[k].log.message) # {}

\* C2: one outbound call per flush, carrying that flush's whole batch, and the
\* attachments of the calls, in call order and followed by the current batch, are
\* the appended events in append order: each call carries exactly the events
\* appended since the previous flush.
C2_OneCallPerFlushInAppendOrder ==
    /\ Len(posted) = Len(flushes)
    /\ \A f \in DOMAIN flushes :
          Len(posted[f].attachments) = Len(flushes[f].batch)
    /\ PostedTexts(Len(posted)) \o [i \in DOMAIN messages |-> messages[i].message]
          = [k \in DOMAIN appendLog |-> appendLog[k].log.message]

\* C2 witness: one call carried two events, appended one after the other.
C2_Witness ==
    \E f \in DOMAIN posted :
        /\ Len(posted[f].attachments) = 2
        /\ posted[f].attachments[1].text < posted[f].attachments[2].text

\* C3 (as stated): once a flush whose delivery failed is over and a fallback is
\* configured, every event of its batch was passed to the fallback exactly once,
\* through the operation of its own level.
C3_FailedBatchReplayedExactlyOnce ==
    \A f \in DOMAIN flushes :
        (cfg.hasFallback /\ flushes[f].postFailed /\ flushes[f].pc \in {"resolved", "rejected"})
        => \A i \in DOMAIN flushes[f].batch :
              LET log == flushes[f].batch[i]
                  passes == { j \in DOMAIN ReplayCalls(f) :
                                /\ ReplayCalls(f)[j].kind = "event"
                                /\ ReplayCalls(f)[j].message = log.message }
              IN /\ Cardinality(passes) = 1
                 /\ \A j \in passes : ReplayCalls(f)[j].op = OpOfLevel(log.level)

\* C4: the calls a flush makes to the fallback are, in order, the "failed"
\* warning, the error, the "original messages" warning and then the events of the
\* batch in batch order (or a prefix of this); a call is made only after the
\* previous one has resolved.
C4_ReplaySequentialAndOrdered ==
    \A f \in DOMAIN flushes :
        LET made == ReplayCalls(f)
            log == flushes[f].fallback
        IN /\ Len(made) <= 3 + Len(flushes[f].batch)
           /\ \A j \in DOMAIN made :
                 /\ (j = 1) => (made[j].kind = "failed" /\ made[j].op = "logWarning")
                 /\ (j = 2) => made[j].kind = "error"
                 /\ (j = 3) => (made[j].kind = "original" /\ made[j].op = "logWarning")
                 /\ (j > 3) => /\ made[j].kind = "event"
                               /\ made[j].message = flushes[f].batch[j - 3].message
           /\ \A j \in DOMAIN log :
                 /\ (log[j].ev = "call") <=> (j % 2 = 1)
                 /\ (log[j].ev = "call" /\ log[j].kind # "catch" /\ j > 1)
                        => log[j - 1].ev = "resolved"

\* C4 witness: a replay that passed two events after the framing.
C4_Witness ==
    \E f \in DOMAIN flushes :
        /\ Len(ReplayCalls(f)) = 5
        /\ flushes[f].pc = "resolved"

\* C5: every dispose() call returns the handle the first call stored; dispose
\* starts at most one flush, the one its handle stands for, and the timer is
\* cancelled from the first call on.
C5_DisposeIdempotent ==
    /\ \A i \in DOMAIN returned : returned[i] = disposePromise /\ returned[i] = returned[1]
    /\ (returned # <<>>) <=> isDisposed
    /\ isDisposed => /\ ~timerActive
                     /\ disposePromise.kind \in {"settled", "flush"}
    /\ LET started == { f \in DOMAIN flushes : flushes[f].origin = "dispose" }
       IN /\ Cardinality(started) <= 1
          /\ \A f \in started : disposePromise = [kind |-> "flush", id |-> f]
          /\ disposePromise.kind = "flush" => disposePromise.id \in started

\* C5 witness: dispose was called twice, an event was logged between the two
\* calls, and it is still in the batch.
C5_Witness ==
    /\ Len(returned) = 2
    /\ \E k \in DOMAIN appendLog :
          appendLog[k].disposeCalls = 1 /\ Pending(appendLog[k].log.message) # {}

\* C6: no timer flush starts once dispose has been called, and the promise of
\* dispose is resolved only when the final flush's post has settled and, if it
\* failed, the whole replay (fallback: framing and every event, each resolved;
\* console: framing and every event) has been made.
C6_DisposeWaitsForFinalFlush ==
    /\ \A f \in DOMAIN flushes : ~(flushes[f].origin = "timer" /\ flushes[f].disposedBefore)
    /\ \A f \in DOMAIN flushes :
          (disposePromise = [kind |-> "flush", id |-> f] /\ flushes[f].pc = "resolved"
              /\ flushes[f].postFailed)
          => IF cfg.hasFallback
             THEN /\ Len(ReplayCalls(f)) = 3 + Len(flushes[f].batch)
                  /\ Len(flushes[f].fallback) = 2 * Len(ReplayCalls(f))
                  /\ \A j \in DOMAIN flushes[f].fallback :
                        flushes[f].fallback[j].ev \in {"call", "resolved"}
             ELSE \A i \in DOMAIN flushes[f].batch :
                     \E j \in DOMAIN consoleLog :
                        /\ consoleLog[j].kind = "event"
                        /\ consoleLog[j].message = flushes[f].batch[i].message

\* C6 witness: dispose's flush failed to post, was replayed to the fallback, and
\* its promise is resolved.
C6_Witness ==
    \E f \in DOMAIN flushes :
        /\ disposePromise = [kind |-> "flush", id |-> f]
        /\ flushes[f].pc = "resolved"
        /\ flushes[f].postFailed
        /\ cfg.hasFallback

-----------------------------------------------------------------------------
(* File Sink: what is observed of a run *)

\* Call c is between its lock() and its release(): appending, or sweeping.
InCriticalSection(c) == calls[c].pc \in {"appending", "listing", "stat", "unlink"}

Settled(c) == calls[c].pc \in {"resolved", "rejected"}

\* C7: at most one logging call is inside the append-then-purge section, and it
\* is the call at the head of the mutex's queue.
C7_MutualExclusion ==
    /\ Cardinality({ c \in DOMAIN calls : InCriticalSection(c) }) <= 1
    /\ \A c \in DOMAIN calls : InCriticalSection(c) => mutexQueue[1] = c

\* C7 witness: one call is sweeping the directory while another call is still
\* waiting for the lock.
C7_Witness ==
    \E c, d \in DOMAIN calls :
        /\ calls[c].pc \in {"listing", "stat", "unlink"}
        /\ calls[d].pc = "waiting"

\* C8: a settled call does not hold (or wait for) the lock, the lock is held
\* only by a call inside its write, and, every I/O operation terminating, the
\* logging calls issued so far are all settled again and again (so each call,
\* queued or not, is eventually settled).
C8_LockReleasedOnEveryPath ==
    /\ [](/\ \A c \in DOMAIN calls :
                Settled(c) => \A i \in DOMAIN mutexQueue : mutexQueue[i] # c
          /\ (mutexQueue # <<>>) => InCriticalSection(mutexQueue[1]))
    /\ []<>(\A c \in DOMAIN calls : Settled(c))

\* C8 witness: after a call whose write failed, a later call (behind it in the
\* lock's queue) has appended its line and completed, and the lock is free.
C8_Witness ==
    /\ mutexQueue = <<>>
    /\ \E c, d \in DOMAIN calls :
          /\ calls[c].failure # "none"
          /\ d > c /\ calls[d].pc = "resolved"
          /\ \E n \in DOMAIN files : \E i \in DOMAIN files[n].lines :
                files[n].lines[i] = calls[d].line

\* C9: a call under which the append or a step of the sweep failed is resolved,
\* never rejected, and the failure is on the diagnostic channel; the only
\* rejected calls are those that threw before asking for the lock.
C9_WriteFailureCaught ==
    \A c \in DOMAIN calls :
        /\ calls[c].failure # "none" =>
              /\ calls[c].pc = "resolved"
              /\ \E i \in DOMAIN diag : diag[i] = [call |-> c, what |-> calls[c].failure]
        /\ calls[c].pc = "rejected" => calls[c].line = <<>>

\* C9 witness: an append failed under one call and a sweep step under another.
C9_Witness ==
    \E c, d \in DOMAIN calls :
        /\ calls[c].failure = "append"
        /\ calls[d].failure \in {"readdir", "stat", "unlink"}

\* C10 (as stated): no logging call of the File Sink or of the Remote Sink ends
\* with a rejected promise.
C10_NoLoggingCallFails ==
    /\ \A c \in DOMAIN calls : calls[c].pc # "rejected"
    /\ rejectedCalls = 0

-----------------------------------------------------------------------------
(* Both sinks: the debug gate *)

\* The logging call of this step started a write: it built its line and asked
\* for the lock, so that exactly one line is appended for it.
StartsOneWrite ==
    /\ Len(calls') = Len(calls) + 1
    /\ calls'[Len(calls')].line # <<>>
    /\ mutexQueue' = Append(mutexQueue, Len(calls'))

\* C11 (as stated, File Sink): a logDebug call starts exactly one write when env
\* is "dev" and none otherwise, whatever the message.
C11_DebugGatedByEnvOnly ==
    [][FileLogDebug => IF fcfg.env = "dev" THEN StartsOneWrite
                       ELSE UNCHANGED <<mutexQueue, files>>]_vars

-----------------------------------------------------------------------------
(* File Sink: files, purge and retention *)

\* appendFile of the call with record r has succeeded.
AppendSucceeded(r) ==
    /\ r.line # <<>>
    /\ r.pc \in {"listing", "stat", "unlink", "resolved"}
    /\ r.failure # "append"

\* The lines of the calls stamped with hour n whose append succeeded, in call
\* order.
WrittenTo(n) ==
    LET done == SelectSeq(calls, LAMBDA r : AppendSucceeded(r) /\ r.file = n)
    IN [i \in DOMAIN done |-> done[i].line]

IsSuffix(s, t) ==
    /\ Len(s) <= Len(t)
    /\ \A i \in DOMAIN s : s[i] = t[Len(t) - Len(s) + i]

\* No file created since the construction can have expired yet.
RunFilesWithinRetention == now - fcfg.retentionDays * HoursPerDay <= StartHour

Window == fcfg.retentionDays * HoursPerDay

\* This step is a write starting a sweep: _purgeLogs passes its rate limit and
\* calls readdir.
SweepStarts ==
    \E c \in DOMAIN calls : calls[c].pc = "appending" /\ calls'[c].pc = "listing"

\* This step is a sweep running to its end.
SweepCompletes ==
    \E c \in DOMAIN calls :
        /\ calls[c].pc \in {"listing", "stat", "unlink"}
        /\ calls'[c].pc = "resolved" /\ calls'[c].failure = "none"

\* C13 (as stated): once a sweep has completed at time t, no write starts
\* another sweep before the clock has reached t + retentionDays.
C13_OneSweepPerWindowSinceCompletion ==
    [][SweepStarts => (sweep.doneAt = 0 \/ now >= sweep.doneAt + Window)]_vars

\* C13 (amended): lastPurgedAt is the clock read at the start of the last sweep
\* that ran to its end (0: none has), it changes at no other step, and no write
\* starts another sweep before the clock has reached that start time +
\* retentionDays.
C13_OneSweepPerWindowSinceStart ==
    [][/\ SweepStarts =>
            /\ lastPurgedAt = 0 \/ now >= lastPurgedAt + Window
            /\ sweep'.now = now
       /\ IF SweepCompletes THEN lastPurgedAt' = sweep.now
          ELSE lastPurgedAt' = lastPurgedAt]_vars

\* C13 witness: after a complete sweep, a later write is sweeping again, a
\* window after the start of the first.
C13_Witness ==
    /\ lastPurgedAt # 0 /\ sweep.doneAt # 0
    /\ sweep.now >= lastPurgedAt + Window
    /\ \E c \in DOMAIN calls : calls[c].pc \in {"listing", "stat", "unlink"}

\* C14: a file leaves the directory only at the unlink step of a sweep, and
\* only if it was created more than retentionDays before the sweep's time; a
\* file that stays keeps its creation time; and when a sweep has run to its end
\* no file older than that is left.
C14_Retention ==
    [][/\ \A n \in DOMAIN files \ DOMAIN files' :
             /\ \E c \in DOMAIN calls : calls[c].pc = "unlink"
             /\ files[n].birth < sweep.now - Window
       /\ \A n \in DOMAIN files \cap DOMAIN files' : files'[n].birth = files[n].birth
       /\ SweepCompletes =>
             \A n \in DOMAIN files' : files'[n].birth >= sweep.now - Window]_vars

\* C14 witness: a sweep taken a day and an hour after the construction has run
\* to its end; the file of the first hour, written by this run, is gone and a
\* file created within the window is kept.
C14_Witness ==
    /\ sweep.doneAt # 0 /\ lastPurgedAt = StartHour + 1 + HoursPerDay
    /\ WrittenTo(StartHour) # <<>> /\ StartHour \notin DOMAIN files
    /\ \E n \in DOMAIN files : files[n].birth >= lastPurgedAt - Window

-----------------------------------------------------------------------------
(* File Sink: construction *)

\* C15 (as stated): a sink is constructed only from an absolute path and a
\* retention that is a positive integer; with any other configuration the
\* construction fails.
C15_ConstructedOnlyIfValid ==
    fcfg.state = "constructed" =>
        /\ PathIsValid(fcfg.config.logDirPath)
        /\ fcfg.config.retentionDays.given
        /\ fcfg.config.retentionDays.value > 0
        /\ fcfg.config.retentionDays.value % 2 = 0

-----------------------------------------------------------------------------
(* Remote Sink: what is admitted to the batch *)

\* C16 (as stated): every buffered event, Debug included, is of a level on the
\* allow-list and has passed the predicate.
C16_BufferedOnlyIfBothFiltersPassed ==
    \A k \in DOMAIN appendLog :
        /\ appendLog[k].log.level \in cfg.filter
        /\ appendLog[k].predicate = "passed"

\* The levels an event of this sink can have: those of the allow-list, and
\* Debug in the dev environment.
Admitted == cfg.filter \cup (IF cfg.env = "dev" THEN {"Debug"} ELSE {})

\* A logInfo/logWarning/logError call of this level, with a passing predicate,
\* can push now: the transform does not throw and the model has room.
CanPush(level) ==
    ENABLED (/\ FilteredLog(level, "text", level \in cfg.filter, TRUE)
             /\ Len(messages') = Len(messages) + 1)

\* C17: no buffered and no delivered event has a level outside the allow-list
\* (Debug aside); with the default allow-list a call of each of Info, Warn and
\* Error whose predicate passes is buffered.
C17_AllowList ==
    [](/\ \A k \in DOMAIN appendLog : appendLog[k].log.level \in Admitted
       /\ \A n \in DOMAIN posted : \A i \in DOMAIN posted[n].attachments :
             posted[n].attachments[i].color \in { Color(level) : level \in Admitted }
       /\ \A level \in AllFilters :
             CanPush(level) <=> /\ level \in cfg.filter
                                /\ cfg.logInjector # "throws"
                                /\ Len(appendLog) < MaxEvents)

\* C17 witness: under an allow-list without Info, one flush has delivered exactly
\* one event, an Error, and nothing else was ever buffered.
C17_Witness ==
    /\ "Info" \notin cfg.filter
    /\ Len(appendLog) = 1 /\ messages = <<>>
    /\ Len(posted) = 1 /\ Len(posted[1].attachments) = 1
    /\ posted[1].attachments[1].color = Color("Error")

-----------------------------------------------------------------------------
(* Remote Sink: logging while a delivery is outstanding *)

\* Flush f has not settled: its post, its replay or its catch handler's call is
\* outstanding.
InFlight(f) == flushes[f].pc \in {"posting", "replaying", "catching"}

\* C18: whether a logging call can push does not depend on outstanding
\* deliveries: while one is in flight a call of an allow-listed level still
\* pushes in the step it is made; the pushed record is appended to the current
\* batch, and the batch of a flush, once taken, never changes.
C18_LoggingNeverWaitsForDelivery ==
    /\ []((\E f \in DOMAIN flushes : InFlight(f)) =>
            \A level \in cfg.filter :
                CanPush(level) <=> (cfg.logInjector # "throws" /\ Len(appendLog) < MaxEvents))
    /\ [][/\ \A f \in DOMAIN flushes : flushes'[f].batch = flushes[f].batch
          /\ Len(appendLog') > Len(appendLog) =>
                /\ messages' = Append(messages, appendLog'[Len(appendLog')].log)
                /\ flushes' = flushes /\ posted' = posted]_vars

\* C18 witness: a record was pushed while a replay to the fallback was in
\* flight: it is in the current batch, not in the batch being replayed.
C18_Witness ==
    \E f \in DOMAIN flushes :
        /\ flushes[f].pc = "replaying"
        /\ messages # <<>>
        /\ \A i \in DOMAIN messages, j \in DOMAIN flushes[f].batch :
              messages[i].message # flushes[f].batch[j].message

-----------------------------------------------------------------------------
(* Remote Sink: the fallback logger *)

\* C19: a flush makes calls to the fallback logger (replay, or the logError of
\* the timer's catch handler) only if its outbound call failed; while no outbound
\* call has failed, no call to the fallback has been made.
C19_FallbackOnlyAfterFailedDelivery ==
    /\ \A f \in DOMAIN flushes : flushes[f].fallback # <<>> => flushes[f].postFailed
    /\ (\A f \in DOMAIN flushes : ~flushes[f].postFailed) =>
          \A f \in DOMAIN flushes : flushes[f].fallback = <<>>

\* C19 witness: of two flushes of a sink with a fallback, one was delivered and
\* made no fallback call, the other failed and was replayed.
C19_Witness ==
    /\ cfg.hasFallback
    /\ \E f, g \in DOMAIN flushes :
          /\ flushes[f].pc = "resolved" /\ ~flushes[f].postFailed
          /\ flushes[f].fallback = <<>>
          /\ flushes[g].postFailed /\ flushes[g].fallback # <<>>

\* The replay of flush f had a call for an event of its batch rejected.
EventReplayRejected(f) ==
    LET log == flushes[f].fallback
    IN \E j \in DOMAIN log :
          /\ j > 1 /\ log[j].ev = "rejected"
          /\ log[j - 1].ev = "call" /\ log[j - 1].kind = "event"

\* C20 (as stated): when the replay of one event is rejected by the fallback,
\* the flush still passes every event of its batch to the fallback before it
\* settles.
C20_ReplayContinuesAfterFailure ==
    \A f \in DOMAIN flushes :
        (~InFlight(f) /\ EventReplayRejected(f)) =>
            \A i \in DOMAIN flushes[f].batch :
                \E j \in DOMAIN ReplayCalls(f) :
                    /\ ReplayCalls(f)[j].kind = "event"
                    /\ ReplayCalls(f)[j].message = flushes[f].batch[i].message

-----------------------------------------------------------------------------
(* Remote Sink: a failed delivery without a fallback logger *)

\* The console output from position k on is the framing and then the events of
\* this batch, in batch order.
ConsoleBlockAt(k, batch) ==
    /\ k + 3 + Len(batch) <= Len(consoleLog)
    /\ consoleLog[k + 1].kind = "failed"
    /\ consoleLog[k + 2].kind = "error"
    /\ consoleLog[k + 3].kind = "original"
    /\ \A i \in DOMAIN batch :
          /\ consoleLog[k + 3 + i].kind = "event"
          /\ consoleLog[k + 3 + i].message = batch[i].message

\* C21: without a fallback, a flush whose outbound call failed has resolved, with
\* the framing and the events of its batch on the console in batch order; every
\* event of a failed batch is on the console exactly once.
C21_FailedBatchOnConsole ==
    ~cfg.hasFallback =>
        \A f \in DOMAIN flushes :
            /\ flushes[f].pc \in {"posting", "resolved"}
            /\ flushes[f].fallback = <<>>
            /\ flushes[f].postFailed =>
                  /\ flushes[f].pc = "resolved"
                  /\ \E k \in 0 .. Len(consoleLog) : ConsoleBlockAt(k, flushes[f].batch)
                  /\ \A i \in DOMAIN flushes[f].batch :
                        Cardinality({ j \in DOMAIN consoleLog :
                            /\ consoleLog[j].kind = "event"
                            /\ consoleLog[j].message = flushes[f].batch[i].message }) = 1

\* C21 witness: a batch of two events failed to post in a sink without a
\* fallback; the console holds the three framing lines and the two events.
C21_Witness ==
    /\ ~cfg.hasFallback
    /\ \E f \in DOMAIN flushes :
          /\ flushes[f].postFailed /\ Len(flushes[f].batch) = 2
          /\ Len(consoleLog) = 5

-----------------------------------------------------------------------------
(* Trace Context Converter *)

IsHexString(str) == \A i \in DOMAIN str : ParseDigit(str[i], 16) >= 0

\* The value the first n digits of a hex string denote, by Horner's rule.
RECURSIVE ValueOfHexFrom(_, _)
ValueOfHexFrom(str, n) ==
    IF n = 0 THEN <<>>
    ELSE MulAdd(ValueOfHexFrom(str, n - 1), 16, ParseDigit(str[n], 16))

ValueOfHex(str) == ValueOfHexFrom(str, Len(str))

\* The value a decimal string denotes, by Horner's rule.
RECURSIVE ValueOfDecimalFrom(_, _)
ValueOfDecimalFrom(str, n) ==
    IF n = 0 THEN <<>>
    ELSE MulAdd(ValueOfDecimalFrom(str, n - 1), 10, ParseDigit(str[n], 10))

ValueOfDecimal(str) == ValueOfDecimalFrom(str, Len(str))

\* Byte i (from 1) of the 8-byte big-endian form of a hex string of at most 16
\* digits.
BigEndianByte(str, i) ==
    LET padded == Repeat("0", 16 - Len(str)) \o str
    IN  16 * ParseDigit(padded[2 * i - 1], 16) + ParseDigit(padded[2 * i], 16)

\* C23: for a hex string of at most 16 digits the buffer is the 8-byte big-endian
\* form of its value, the decimal string denotes exactly that value, and every
\* intermediate value of both conversions is an exactly representable integer.
C23_ConversionIsExact ==
    (IsHexString(conversion.str) /\ Len(conversion.str) <= 16) =>
        /\ conversion.pc \in {"buffer", "done"} =>
              /\ Len(conversion.buffer) = 8
              /\ \A i \in 1 .. 8 : conversion.buffer[i] = BigEndianByte(conversion.str, i)
        /\ conversion.pc = "done" =>
              /\ \A i \in DOMAIN conversion.numberString :
                    ParseDigit(conversion.numberString[i], 10) >= 0
              /\ ValueOfDecimal(conversion.numberString) = ValueOfHex(conversion.str)
        /\ conversion.safe

\* C23 witness: the sixteen digits "ffffffffffffffff" came out as
\* "18446744073709551615", 2^64 - 1.
C23_Witness ==
    /\ conversion.pc = "done"
    /\ conversion.str = Repeat("f", 16)
    /\ conversion.numberString =
          << "1", "8", "4", "4", "6", "7", "4", "4", "0", "7",
             "3", "7", "0", "9", "5", "5", "1", "6", "1", "5" >>

\* C24: the decimal string of every converted input starts with "0" only when it
\* is "0" (the buffer is zero); the loop, which writes one digit per round, is
\* left after 1 to 20 rounds on every buffer.
C24_NoLeadingZeros ==
    /\ conversion.pc = "done" =>
          /\ conversion.numberString # <<>>
          /\ Len(conversion.numberString) <= 20
          /\ conversion.numberString[1] = "0" =>
                /\ conversion.numberString = <<"0">>
                /\ \A i \in 1 .. 8 : conversion.buffer[i] = 0
    /\ conversion.pc # "looping"
    /\ conversion.pc = "buffer" =>
          /\ ToNumberString(conversion.buffer, 10).ended
          /\ Len(ToNumberString(conversion.buffer, 10).str) \in 1 .. 20

\* C24 witness: a string with two leading zeros came out without them.
C24_Witness ==
    /\ conversion.pc = "done"
    /\ conversion.str = <<"0", "0", "a", "f">>
    /\ conversion.numberString = <<"1", "7", "5">>

-----------------------------------------------------------------------------
(* getErrorMessage *)

\* C22: getErrorMessage returns a string for every argument; when the rendering
\* throws it has called console.warn and returns the fixed message.
C22_AlwaysReturnsAString ==
    errorCall.pc = "returned" =>
        /\ errorCall.logMessage # "undefined"
        /\ RenderingThrows(errorCall.exp) =>
              errorCall.warned /\ errorCall.logMessage = "fixed"

-----------------------------------------------------------------------------
(* LogEvent invariant *)

\* C25: every event the remote sink has buffered has one of the four levels and
\* a message that is not empty.
C25_LevelAndMessageOfEveryEvent ==
    \A i \in DOMAIN appendLog :
        /\ appendLog[i].log.level \in Levels
        /\ appendLog[i].log.text # ""

-----------------------------------------------------------------------------
(* Order of the timestamps in a sink's output *)

\* The instant call c read from the clock for its dateTime and time fields: the
\* file name of the call is cut from the same reading.
RawTime(c) == calls[c].file

-----------------------------------------------------------------------------
(* Identity of a sink *)

\* C27: every event built carries the service and the env the sink was
\* constructed with, the env in lower case, and no step changes the two.
C27_IdentityFixedAtConstruction ==
    /\ [](\A i \in DOMAIN builder.built :
              builder.built[i].json =>
                  /\ builder.built[i].log.service = builder.service
                  /\ builder.built[i].log.env = builder.env
                  /\ builder.built[i].log.env \in {"dev", "prod", "test"})
    /\ [][builder'.service = builder.service /\ builder'.env = builder.env]_vars

\* C27 witness: a sink configured with package.name "pkg" and env "DEV" has built
\* two events, both with service "pkg" and env "dev".
C27_Witness ==
    /\ Len(builder.built) = 2
    /\ \A i \in DOMAIN builder.built :
          /\ builder.built[i].json
          /\ builder.built[i].log.service = "pkg"
          /\ builder.built[i].log.env = "dev"

-----------------------------------------------------------------------------
(* Trace injection *)

\* The event carries no trace field.
Untraced(log) ==
    /\ ~log.hasTrace /\ log.trace_id = <<>> /\ log.span_id = <<>> /\ log.trace_flags = <<>>
    /\ ~log.hasDd /\ log.dd_trace_id = <<>> /\ log.dd_span_id = <<>>

\* C28: an event carries trace fields only if a span was active with a valid
\* context when it was built, and then they are the ids of that span; otherwise
\* it carries none. A step changes nothing of the span but its status, and the
\* status only when the event it builds is a traced event of level Error, to
\* ERROR with the message of the event.
C28_TraceInjection ==
    /\ [](\A i \in DOMAIN builder.built :
              LET e == builder.built[i]
              IN  IF e.json /\ e.spanBefore.present /\ IsSpanContextValid(e.spanBefore)
                  THEN /\ e.log.hasTrace
                       /\ e.log.trace_id = e.spanBefore.traceId
                       /\ e.log.span_id = e.spanBefore.spanId
                  ELSE Untraced(e.log))
    /\ [][/\ builder'.span = [builder.span EXCEPT !.status = builder'.span.status]
          /\ builder'.span.status # builder.span.status =>
                LET e == builder'.built[Len(builder'.built)]
                IN  /\ Len(builder'.built) = Len(builder.built) + 1
                    /\ e.json /\ e.log.level = "Error" /\ e.log.hasTrace
                    /\ builder'.span.status = [code |-> "ERROR", message |-> e.log.message]
         ]_vars

\* C28 witness: under a valid span an Info event was built with the trace fields
\* and left the status unset, then an Error event set it.
C28_Witness ==
    /\ Len(builder.built) = 2
    /\ builder.built[1].log.level = "Info" /\ builder.built[1].log.hasTrace
    /\ builder.built[2].log.level = "Error" /\ builder.built[2].log.hasTrace
    /\ builder.built[2].spanBefore.status = StatusUnset
    /\ builder.span.status.code = "ERROR"

-----------------------------------------------------------------------------
(* The event transform *)

\* C29: in the remote sink the transform has run only on events of a level on
\* the allow-list that had passed the predicate before.
C29_TransformOnlyAfterBothFilters ==
    \A k \in DOMAIN appendLog :
        appendLog[k].log.injected =>
            /\ appendLog[k].log.level \in cfg.filter
            /\ appendLog[k].predicate = "passed"

-----------------------------------------------------------------------------
(* Remote Sink: a flush of an empty batch *)

\* C30: while the batch is empty no step (a timer tick and a dispose call among
\* them) makes an outbound call or starts a flush, so none reaches the fallback
\* or the console for it; a dispose call that finds the batch empty leaves it
\* empty and returns a settled handle.
C30_EmptyFlushDoesNothing ==
    [][messages = <<>> =>
          /\ posted' = posted
          /\ Len(flushes') = Len(flushes)
          /\ returned' # returned =>
                /\ messages' = <<>>
                /\ consoleLog' = consoleLog
                /\ \A f \in DOMAIN flushes : flushes'[f] = flushes[f]
                /\ returned'[Len(returned')].kind # "flush" \/ Len(returned) > 0
      ]_vars

\* C30 witness: dispose was called on a sink that had buffered nothing: it is
\* disposed, and nothing was posted and no flush started.
C30_Witness ==
    /\ isDisposed
    /\ returned # <<>>
    /\ appendLog = <<>>
    /\ posted = <<>> /\ flushes = <<>> /\ messages = <<>>

-----------------------------------------------------------------------------
(* Remote Sink: logging after dispose *)

\* The record with text m was handed on: it is in an outbound call, in a call to
\* the fallback logger or on the console.
HandedOn(m) ==
    \/ \E n \in DOMAIN posted : \E i \in DOMAIN posted[n].attachments :
          posted[n].attachments[i].text = m
    \/ \E f \in DOMAIN flushes : \E j \in DOMAIN flushes[f].fallback :
          flushes[f].fallback[j].ev = "call" /\ flushes[f].fallback[j].kind = "event"
             /\ flushes[f].fallback[j].message = m
    \/ \E j \in DOMAIN consoleLog : consoleLog[j].kind = "event" /\ consoleLog[j].message = m

\* C31: a logging call made after dispose() still appends its record to the
\* current batch, but once dispose has been called no step starts a flush (the
\* timer is cancelled, further dispose calls start none), so a record pushed
\* after dispose stays in the batch: it is in no flush's batch, in no outbound
\* call, and is never passed to the fallback or the console.
C31_LoggedAfterDisposeNeverDelivered ==
    /\ [](/\ isDisposed => ~timerActive
          /\ \A k \in DOMAIN appendLog :
                appendLog[k].disposeCalls > 0 =>
                    /\ Cardinality(Pending(appendLog[k].log.message)) = 1
                    /\ Carried(appendLog[k].log.message) = {}
                    /\ ~HandedOn(appendLog[k].log.message))
    /\ [][/\ isDisposed => (Len(flushes') = Len(flushes) /\ posted' = posted)
          /\ (isDisposed /\ Len(appendLog') > Len(appendLog)) =>
                messages' = Append(messages, appendLog'[Len(appendLog')].log)]_vars

\* C31 witness: a record logged before dispose was delivered by dispose's flush;
\* a record logged after it is still in the batch after a second dispose() call,
\* with no delivery outstanding.
C31_Witness ==
    /\ Len(returned) = 2
    /\ \A f \in DOMAIN flushes : flushes[f].pc = "resolved"
    /\ \E k \in DOMAIN appendLog :
          appendLog[k].disposeCalls = 0 /\ HandedOn(appendLog[k].log.message)
    /\ \E k \in DOMAIN appendLog :
          appendLog[k].disposeCalls = 1 /\ Pending(appendLog[k].log.message) # {}

-----------------------------------------------------------------------------
(* Remote Sink: dispose while a timer flush is in flight *)

\* The promise dispose() returned is resolved.
DisposeResolved ==
    \/ disposePromise.kind = "settled"
    \/ disposePromise.kind = "flush" /\ flushes[disposePromise.id].pc = "resolved"

\* C32: the promise of dispose is that of the flush dispose starts itself, or a
\* settled one when the batch is empty at the call, whatever timer flushes are
\* in flight; the first dispose call leaves every earlier flush as it is.
C32_DisposeWaitsOnlyForItsOwnFlush ==
    /\ [](disposePromise.kind = "flush" =>
            /\ disposePromise.id \in DOMAIN flushes
            /\ flushes[disposePromise.id].origin = "dispose")
    /\ [][(~isDisposed /\ isDisposed') =>
            /\ disposePromise' = IF messages = <<>>
                                 THEN [kind |-> "settled", id |-> 0]
                                 ELSE [kind |-> "flush", id |-> Len(flushes) + 1]
            /\ \A f \in DOMAIN flushes : flushes'[f] = flushes[f]]_vars

\* C32 witness: the promise of dispose's own flush is resolved while a timer
\* flush that was started before dispose is still replaying its batch.
C32_Witness ==
    /\ disposePromise.kind = "flush"
    /\ DisposeResolved
    /\ \E f \in DOMAIN flushes :
          /\ flushes[f].origin = "timer"
          /\ f < disposePromise.id
          /\ flushes[f].pc = "replaying"

-----------------------------------------------------------------------------
(* Remote Sink: concurrent deliveries *)

\* The texts of the records in the batch of flush f.
BatchTexts(f) == { flushes[f].batch[i].message : i \in DOMAIN flushes[f].batch }

\* C33: the batches of two flushes never share a record, in flight together or
\* not; a step that takes the current batch starts the delivery of the whole of
\* it at once, whatever deliveries are in flight, and leaves those as they are.
C33_ConcurrentBatchesDisjoint ==
    /\ [](\A f, g \in DOMAIN flushes : f # g => BatchTexts(f) \cap BatchTexts(g) = {})
    /\ [][(messages # <<>> /\ messages' = <<>>) =>
            /\ Len(flushes') = Len(flushes) + 1
            /\ flushes'[Len(flushes')].batch = messages
            /\ flushes'[Len(flushes')].pc = "posting"
            /\ Len(posted') = Len(posted) + 1
            /\ \A f \in DOMAIN flushes : flushes'[f] = flushes[f]]_vars

\* C33 witness: two deliveries were in flight together, the second started by
\* dispose, and the one started later has completed first.
C33_Witness ==
    \E f, g \in DOMAIN flushes :
        /\ f < g
        /\ flushes[f].origin = "timer" /\ flushes[g].origin = "dispose"
        /\ flushes[f].pc = "posting"
        /\ flushes[g].pc = "resolved" /\ ~flushes[g].postFailed

-----------------------------------------------------------------------------
(* Remote Sink: a timer flush that fails *)

\* The timer callback starts a flush.
TimerStartsFlush == TimerFires /\ Len(flushes') = Len(flushes) + 1

\* The timer flushes whose failure the catch handler's logError call failed to
\* report.
CatchFailed ==
    { f \in DOMAIN flushes :
        /\ flushes[f].pc = "rejected" /\ flushes[f].origin = "timer"
        /\ flushes[f].fallback[Len(flushes[f].fallback)].ev = "rejected" }

\* C34: a flush fails only when a fallback is configured, the post failed and a
\* replay call was rejected; for a timer flush the rejection is followed at once
\* by the catch handler's logError call to the fallback, the flush is over only
\* when that call has settled, and each such call that is rejected is one
\* console.error line; the timer is cleared by dispose only, and while it is
\* live a tick on a non-empty batch starts a flush.
C34_TimerFlushFailureHandled ==
    /\ [](/\ \A f \in DOMAIN flushes :
               flushes[f].pc \in {"catching", "rejected"} =>
                   /\ cfg.hasFallback /\ flushes[f].postFailed
                   /\ \E j \in DOMAIN flushes[f].fallback :
                         flushes[f].fallback[j].ev = "rejected"
          /\ \A f \in DOMAIN flushes :
               LET log == flushes[f].fallback
               IN  flushes[f].origin = "timer" =>
                      /\ \A j \in DOMAIN log :
                            (j > 1 /\ log[j].ev = "rejected" /\ log[j - 1].kind # "catch") =>
                                /\ j < Len(log)
                                /\ log[j + 1].ev = "call" /\ log[j + 1].kind = "catch"
                                /\ log[j + 1].op = "logError"
                      /\ flushes[f].pc = "rejected" =>
                            /\ Len(log) >= 4
                            /\ log[Len(log) - 1].kind = "catch"
                            /\ log[Len(log)].ev \in {"resolved", "rejected"}
          /\ Cardinality({ j \in DOMAIN consoleLog : consoleLog[j].kind = "catch" })
                = Cardinality(CatchFailed)
          /\ (timerActive /\ messages # <<>>) => ENABLED TimerStartsFlush)
    /\ [][(timerActive /\ ~timerActive') => (~isDisposed /\ isDisposed')]_vars

\* C34 witness: the replay of a timer flush was rejected, the handler's logError
\* call was rejected too and went to the console; the timer is still live and a
\* later timer flush is posting.
C34_Witness ==
    /\ timerActive
    /\ \E f \in CatchFailed :
          /\ \E j \in DOMAIN consoleLog : consoleLog[j].kind = "catch"
          /\ \E g \in DOMAIN flushes :
                g > f /\ flushes[g].origin = "timer" /\ flushes[g].pc = "posting"

-----------------------------------------------------------------------------
(* File Sink: when lastPurgedAt changes *)

\* This step is a successful append after which _purgeLogs returns at its rate
\* limit.
SweepSkipped ==
    \E c \in DOMAIN calls :
        calls[c].pc = "appending" /\ calls'[c].pc = "resolved" /\ calls'[c].failure = "none"

\* This step is a write failing: at the append (what = "append") or in the sweep.
WriteFails(what) ==
    \E c \in DOMAIN calls : calls[c].failure = "none" /\ calls'[c].failure = what

\* C35: lastPurgedAt changes at the step that ends a complete sweep and at no
\* other: not when the sweep is skipped, not when readdir, stat or unlink fails,
\* not when the append fails. After a failed sweep the purge is still due, and a
\* successful append starts a sweep exactly when the purge is due.
C35_LastPurgedAtOnlyOnCompletion ==
    [][/\ lastPurgedAt' # lastPurgedAt => (SweepCompletes /\ lastPurgedAt' = sweep.now)
       /\ SweepSkipped => lastPurgedAt' = lastPurgedAt
       /\ \A what \in {"append", "readdir", "stat", "unlink"} :
             WriteFails(what) => lastPurgedAt' = lastPurgedAt
       /\ \A what \in {"readdir", "stat", "unlink"} :
             WriteFails(what) => ~PurgeNotDue'
       /\ \A c \in DOMAIN calls :
             (calls[c].pc = "appending" /\ AppendSucceeded(calls'[c])) =>
                 (calls'[c].pc = "listing" <=> ~PurgeNotDue)]_vars

\* C35 witness: the sweep of the first call failed part-way, at a stat or an
\* unlink, lastPurgedAt is still unset, and the next call, its append done, is
\* sweeping again.
C35_Witness ==
    /\ lastPurgedAt = 0
    /\ \E c, d \in DOMAIN calls :
          /\ c < d
          /\ calls[c].failure \in {"stat", "unlink"}
          /\ calls[d].pc \in {"listing", "stat", "unlink"}

-----------------------------------------------------------------------------
(* File Sink: the first write *)

\* No appendFile of this sink has succeeded yet.
NothingWritten == \A d \in DOMAIN calls : ~AppendSucceeded(calls[d])

\* The file the sink found in the directory at its construction (file 0 of
\* FileSetups) was older than the retention window then.
FoundExpired == 0 < StartHour - Window

\* C36: the first successful append of a sink finds lastPurgedAt unset and
\* starts a sweep, at whatever time it happens and whatever the retention; when
\* a sweep started with lastPurgedAt unset runs to its end, the file found at
\* the construction, older than the window then, is gone.
C36_FirstWriteSweeps ==
    [][/\ \A c \in DOMAIN calls :
             (calls[c].pc = "appending" /\ AppendSucceeded(calls'[c]) /\ NothingWritten) =>
                 /\ lastPurgedAt = 0
                 /\ calls'[c].pc = "listing"
                 /\ sweep'.now = now
       /\ (SweepCompletes /\ lastPurgedAt = 0 /\ FoundExpired) => 0 \notin DOMAIN files']_vars

\* C36 witness: the sweep of the first write has run to its end and removed the
\* file, three days old, that the sink found at its construction; the file of
\* the write is there.
C36_Witness ==
    /\ fcfg.retentionDays = 1 /\ fcfg.env = "dev" /\ ~fcfg.useJsonFormat
    /\ Len(calls) = 1
    /\ calls[1].pc = "resolved" /\ calls[1].failure = "none" /\ AppendSucceeded(calls[1])
    /\ lastPurgedAt # 0
    /\ DOMAIN files = {calls[1].file}

-----------------------------------------------------------------------------
(* File Sink: the hour of a line *)

\* The calls whose lines are in file n, in the order of the lines.
CallsOfLines(n) == [i \in DOMAIN files[n].lines |-> files[n].lines[i].call]

\* C37: a call that asks for the lock has its file name and its line from the
\* moment it is issued (the file of the clock's hour then), and no later step
\* changes them; the lock's queue holds the calls in the order they were issued,
\* so a call appends only when no earlier call is waiting or appending; the
\* append adds the line to the file the call was stamped with, whatever the
\* clock says then; and the lines of a file are in call order.
C37_StampedAtIssue ==
    /\ [](/\ \A i, j \in DOMAIN mutexQueue : i < j => mutexQueue[i] < mutexQueue[j]
          /\ \A c, d \in DOMAIN calls :
                (c < d /\ calls[c].pc \in {"waiting", "appending"}) =>
                    (calls[d].line # <<>> => calls[d].pc = "waiting")
          /\ \A n \in DOMAIN files : \A i, j \in DOMAIN files[n].lines :
                i < j => CallsOfLines(n)[i] < CallsOfLines(n)[j])
    /\ [][/\ \A c \in DOMAIN calls :
                calls'[c].file = calls[c].file /\ calls'[c].line = calls[c].line
          /\ \A c \in DOMAIN calls' \ DOMAIN calls :
                calls'[c].line # <<>> => calls'[c].file = now
          /\ \A c \in DOMAIN calls :
                (calls[c].pc = "appending" /\ AppendSucceeded(calls'[c])) =>
                    /\ calls[c].file \in DOMAIN files'
                    /\ files'[calls[c].file].lines =
                          Append(IF calls[c].file \in DOMAIN files
                                 THEN files[calls[c].file].lines ELSE <<>>,
                                 calls[c].line)
                    /\ \A n \in DOMAIN files' \ {calls[c].file} :
                          n \in DOMAIN files /\ files'[n] = files[n]]_vars

\* C37 witness: two calls were issued in the same hour; the first held the lock
\* until its sweep ended an hour later, so the second got the lock in the next
\* hour, and its line is in the file of the hour it was issued in, after the
\* line of the first; there is no file for the next hour.
C37_Witness ==
    /\ Len(calls) = 2
    /\ calls[1].file = StartHour /\ calls[2].file = StartHour
    /\ lastPurgedAt = StartHour /\ sweep.doneAt = StartHour + 1
    /\ calls[2].pc = "resolved" /\ AppendSucceeded(calls[2])
    /\ StartHour \in DOMAIN files /\ StartHour + 1 \notin DOMAIN files
    /\ files[StartHour].lines = <<calls[1].line, calls[2].line>>

-----------------------------------------------------------------------------
(* Both sinks: a construction that fails *)

\* C38: the construction of a Remote Sink fails exactly when one of its checks
\* throws (among them a missing token or channel, a filter that is no array of
\* Info/Warn/Error, a predicate that is no function), and then the timer was
\* never started: it runs exactly when the sink is constructed. The construction
\* of a File Sink fails exactly when the path or the retention does not pass its
\* check, and then the directory is as it was found: not created.
C38_FailedConstructionHasNoSideEffects ==
    /\ timerActive <=> cfg.state = "constructed"
    /\ cfg.state \in {"constructed", "failed"} =>
          (cfg.state = "failed" <=>
              \/ cfg.config.slackBotToken \in {"missing", "empty", "number"}
              \/ cfg.config.slackBotChannel \in {"missing", "number"}
              \/ cfg.config.slackUserName = "number"
              \/ cfg.config.slackUserImage = "number"
              \/ cfg.config.filter.kind = "string"
              \/ cfg.config.filter.items \ {"Info", "Warn", "Error"} # {}
              \/ cfg.config.logFilter = "string")
    /\ cfg.state = "failed" =>
          /\ ~timerActive
          /\ messages = <<>> /\ flushes = <<>> /\ posted = <<>> /\ consoleLog = <<>>
    /\ fcfg.state \in {"constructed", "failed"} =>
          (fcfg.state = "failed" <=>
              ~(PathIsValid(fcfg.config.logDirPath) /\ RetentionIsValid(fcfg.config.retentionDays)))
    /\ fcfg.state = "failed" =>
          /\ fcfg.dirExists = fcfg.config.dirExists
          /\ files = <<>>
    /\ fcfg.state = "constructed" => fcfg.dirExists

\* C38 witness: a Remote Sink given a filter with a level outside the list and
\* a File Sink given a relative path, the directory not existing, have both
\* failed to construct; no timer runs and there is no directory.
C38_Witness ==
    /\ cfg.state = "failed" /\ cfg.failedAt = "filter"
    /\ ~timerActive
    /\ fcfg.state = "failed"
    /\ ~fcfg.config.dirExists /\ ~fcfg.dirExists
    /\ RetentionIsValid(fcfg.config.retentionDays)

=============================================================================
